---- MODULE Spec2Model ----
(***************************************************************************)
(* Model of the Azure DevOps MCP server: the call_tool dispatcher, its     *)
(* per-tool validation, the operation handlers with their outbound HTTP    *)
(* requests, the two-level error translation, and the server lifecycle.    *)
(*                                                                         *)
(* Strings are sequences of tokens, so that template literals are          *)
(* concatenations and "contains", "starts with" and "replace" are          *)
(* computed.  JavaScript values are records [t |-> type, v |-> content].   *)
(***************************************************************************)
EXTENDS Naturals, Sequences, FiniteSets, TLC

VARIABLES
  server,   \* "running" | "closing" | "exited"
  plat,     \* the remote platform (mock backend): fault mode, branch heads
  inv,      \* the invocation being served (or the last one served)
  log,      \* outbound HTTP requests issued by that invocation, in order
  outcome,  \* what the call_tool handler produced for it
  rejected, \* history: some earlier invocation ended in a fatal rejection
  prev      \* history: the last completed get_file_content (kept by SpecRead)

vars == <<server, plat, inv, log, outcome, rejected, prev>>

(***************************************************************************)
(* Bounds                                                                  *)
(***************************************************************************)
MaxCommits == 2    \* commit ids the platform can hand out to accepted pushes

(***************************************************************************)
(* Strings (token sequences)                                               *)
(***************************************************************************)
Includes(hay, needle) ==
  \E i \in 0..Len(hay) :
    /\ i + Len(needle) <= Len(hay)
    /\ \A j \in 1..Len(needle) : hay[i + j] = needle[j]

StartsWith(s, p) ==
  /\ Len(p) <= Len(s)
  /\ \A j \in 1..Len(p) : s[j] = p[j]

\* String.prototype.replace(pattern, ''): removes the first occurrence only
ReplaceFirst(s, tok) ==
  IF \E i \in 1..Len(s) : s[i] = tok
  THEN LET i == CHOOSE k \in 1..Len(s) : s[k] = tok /\ \A m \in 1..(k - 1) : s[m] # tok
       IN  SubSeq(s, 1, i - 1) \o SubSeq(s, i + 1, Len(s))
  ELSE s

\* the tokens of s that follow the marker token, up to the next "&" token
Between(s, marker) ==
  IF \E i \in 1..Len(s) : s[i] = marker
  THEN LET i == CHOOSE k \in 1..Len(s) : s[k] = marker /\ \A m \in 1..(k - 1) : s[m] # marker
           rest == SubSeq(s, i + 1, Len(s))
           stop == IF \E k \in 1..Len(rest) : rest[k] = "&"
                   THEN (CHOOSE k \in 1..Len(rest) : rest[k] = "&" /\ \A m \in 1..(k - 1) : rest[m] # "&") - 1
                   ELSE Len(rest)
       IN  SubSeq(rest, 1, stop)
  ELSE << >>

(***************************************************************************)
(* JavaScript values                                                       *)
(***************************************************************************)
Undefined == [t |-> "undefined", v |-> << >>]
Str(s)    == [t |-> "string", v |-> s]
Arr(s)    == [t |-> "array", v |-> s]
Obj(f)    == [t |-> "object", v |-> f]

\* !x
Not(x) ==
  \/ x.t \in {"undefined", "null"}
  \/ x.t = "string" /\ x.v = << >>
  \/ x.t = "number" /\ x.v \in {<<"0">>, <<"NaN">>}
  \/ x.t = "boolean" /\ x.v = <<"false">>

\* x.k  (x is known not to be undefined/null)
Get(x, k) == IF x.t = "object" /\ k \in DOMAIN x.v THEN x.v[k] ELSE Undefined

\* x[0]
At0(x) == IF x.t = "array" /\ Len(x.v) > 0 THEN x.v[1] ELSE Undefined

\* x.length === 0  (x truthy)
EmptyLength(x) == x.t \in {"array", "string"} /\ Len(x.v) = 0

\* `${x}`
Tpl(x) == IF x.t = "undefined" THEN <<"undefined">>
          ELSE IF x.t \in {"string", "number", "boolean"} THEN x.v
          ELSE <<"[object]">>

\* request.params.arguments?.k
Arg(arguments, k) ==
  IF arguments.t = "object" /\ k \in DOMAIN arguments.v THEN arguments.v[k] ELSE Undefined

(***************************************************************************)
(* Errors                                                                  *)
(***************************************************************************)
ApiErrorPrefix == <<"Azure DevOps API error: ">>

\* an error of the HTTP library; hasBody: error.response?.data?.message is set
AxiosError(message, hasBody, bodyMessage) ==
  [cls |-> "AxiosError", code |-> "", message |-> message, hasBody |-> hasBody, bodyMessage |-> bodyMessage]

AzureDevOpsError(message) ==
  [cls |-> "AzureDevOpsError", code |-> "", message |-> message, hasBody |-> FALSE, bodyMessage |-> << >>]

TypeError ==
  [cls |-> "TypeError", code |-> "", message |-> <<"Cannot read properties of undefined">>,
   hasBody |-> FALSE, bodyMessage |-> << >>]

NoError ==
  [cls |-> "none", code |-> "", message |-> << >>, hasBody |-> FALSE, bodyMessage |-> << >>]

McpError(code, message) ==
  [cls |-> "McpError", code |-> code, message |-> message, hasBody |-> FALSE, bodyMessage |-> << >>]

\* the catch block of every function under operations/
OperationCatch(error) ==
  IF error.cls = "AxiosError"
  THEN AzureDevOpsError(ApiErrorPrefix \o (IF error.hasBody THEN error.bodyMessage ELSE error.message))
  ELSE error

(***************************************************************************)
(* Tool catalog and dispatcher table (index.ts)                            *)
(***************************************************************************)
\* the names of the if / else-if chain of the CallToolRequestSchema handler
HandledNames ==
  {"get_projects", "get_repositories", "create_repository", "create_pull_request",
   "add_issue_comment", "get_branches", "get_commits", "get_file_content",
   "update_file_content", "search_code", "search_work_items", "search_users",
   "fork_repository", "create_branch", "update_branch", "push_files",
   "create_or_update_file"}

\* the required list each tool advertises in list_tools: the literal list of
\* its inputSchema, or the fields of its zod schema that are not .optional()
SchemaRequired(name) ==
  CASE name = "get_projects"          -> {}
    [] name = "get_repositories"      -> {"project_id"}
    [] name = "create_repository"     -> {"project_id", "name"}
    [] name = "create_pull_request"   -> {"project_id", "repository_id", "source_branch", "target_branch", "title"}
    [] name = "add_issue_comment"     -> {"project_id", "repository_id", "issue_id", "comment"}
    [] name = "get_branches"          -> {"project_id", "repository_id"}
    [] name = "get_commits"           -> {"project_id", "repository_id", "branch"}
    [] name = "get_file_content"      -> {"project_id", "repository_id", "file_path", "branch"}
    [] name = "update_file_content"   -> {"project_id", "repository_id", "file_path", "branch", "content", "commit_message"}
    [] name = "search_code"           -> {"project_id", "repository_id", "search_text"}
    [] name = "search_work_items"     -> {"project_id", "query"}
    [] name = "search_users"          -> {"query"}
    [] name = "fork_repository"       -> {"project_id", "repository_id", "name"}
    [] name = "create_branch"         -> {"project_id", "repository_id", "branch"}
    [] name = "update_branch"         -> {"project_id", "repository_id", "branch", "new_commit_id", "old_commit_id"}
    [] name = "push_files"            -> {"project_id", "repository_id", "branch", "files", "commit_message"}
    [] name = "create_or_update_file" -> {"project_id", "repository_id", "path", "content", "commit_message", "branch"}
    [] OTHER                          -> {}

\* the type the schemas declare for a parameter
SchemaType(k) ==
  CASE k = "files" -> "array"
    [] k = "top"   -> "number"
    [] OTHER       -> "string"

\* mutant: the push_files branch does not test files
Checked_WithoutFiles(name) == SchemaRequired(name) \ {"files"}

\* the argument names each branch tests with !x before its try block
Checked(name) ==
  CASE name = "get_projects"          -> {}
    [] name = "get_repositories"      -> {"project_id"}
    [] name = "create_repository"     -> {"project_id", "name"}
    [] name = "create_pull_request"   -> {"project_id", "repository_id", "source_branch", "target_branch", "title"}
    [] name = "add_issue_comment"     -> {"project_id", "repository_id", "issue_id", "comment"}
    [] name = "get_branches"          -> {"project_id", "repository_id"}
    [] name = "get_commits"           -> {"project_id", "repository_id", "branch"}
    [] name = "get_file_content"      -> {"project_id", "repository_id", "file_path", "branch"}
    [] name = "update_file_content"   -> {"project_id", "repository_id", "file_path", "branch", "content", "commit_message"}
    [] name = "search_code"           -> {"project_id", "repository_id", "search_text"}
    [] name = "search_work_items"     -> {"project_id", "query"}
    [] name = "search_users"          -> {"query"}
    [] name = "fork_repository"       -> {"project_id", "repository_id", "name"}
    [] name = "create_branch"         -> {"project_id", "repository_id", "branch"}
    [] name = "update_branch"         -> {"project_id", "repository_id", "branch", "new_commit_id", "old_commit_id"}
    [] name = "push_files"            -> {"project_id", "repository_id", "branch", "files", "commit_message"}
    [] name = "create_or_update_file" -> {"project_id", "repository_id", "path", "content", "commit_message", "branch"}
    [] OTHER                          -> {}

\* the further arguments each branch reads without testing them
Unchecked(name) ==
  CASE name = "create_repository"     -> {"description"}
    [] name = "create_pull_request"   -> {"description"}
    [] name = "search_code"           -> {"file_path", "top"}
    [] name = "search_work_items"     -> {"state", "type", "assigned_to", "top"}
    [] name = "search_users"          -> {"top"}
    [] name = "fork_repository"       -> {"target_project_id"}
    [] name = "create_branch"         -> {"from_branch"}
    [] OTHER                          -> {}

\* the text of the InvalidParams error of each branch
RequiredMessage(name) ==
  CASE name = "get_repositories"      -> <<"project_id", " is required">>
    [] name = "create_repository"     -> <<"project_id", " and ", "name", " are required">>
    [] name = "create_pull_request"   -> <<"project_id", ", ", "repository_id", ", ", "source_branch", ", ", "target_branch", ", and ", "title", " are required">>
    [] name = "add_issue_comment"     -> <<"project_id", ", ", "repository_id", ", ", "issue_id", ", and ", "comment", " are required">>
    [] name = "get_branches"          -> <<"project_id", " and ", "repository_id", " are required">>
    [] name = "get_commits"           -> <<"project_id", ", ", "repository_id", ", and ", "branch", " are required">>
    [] name = "get_file_content"      -> <<"project_id", ", ", "repository_id", ", ", "file_path", ", and ", "branch", " are required">>
    [] name = "update_file_content"   -> <<"project_id", ", ", "repository_id", ", ", "file_path", ", ", "branch", ", ", "content", ", and ", "commit_message", " are required">>
    [] name = "search_code"           -> <<"project_id", ", ", "repository_id", ", and ", "search_text", " are required">>
    [] name = "search_work_items"     -> <<"project_id", " and ", "query", " are required">>
    [] name = "search_users"          -> <<"query", " is required">>
    [] name = "fork_repository"       -> <<"project_id", ", ", "repository_id", ", and ", "name", " are required">>
    [] name = "create_branch"         -> <<"project_id", ", ", "repository_id", ", and ", "branch", " are required">>
    [] name = "update_branch"         -> <<"project_id", ", ", "repository_id", ", ", "branch", ", ", "new_commit_id", ", and ", "old_commit_id", " are required">>
    [] name = "push_files"            -> <<"project_id", ", ", "repository_id", ", ", "branch", ", ", "files", ", and ", "commit_message", " are required">>
    [] name = "create_or_update_file" -> <<"project_id", ", ", "repository_id", ", ", "path", ", ", "content", ", ", "commit_message", ", and ", "branch", " are required">>
    [] OTHER                          -> << >>

\* get_projects and get_repositories call this.axiosInstance themselves; the
\* other branches call a function of operations/
IsDirect(name) == name \in {"get_projects", "get_repositories"}

\* mutant: the tests are joined with && instead of ||
FailsValidation_AllMissing(name, arguments) ==
  /\ Checked(name) # {}
  /\ \A k \in Checked(name) : Not(Arg(arguments, k))

\* if (!a || !b || ...) throw new McpError(ErrorCode.InvalidParams, ...)
FailsValidation(name, arguments) ==
  \E k \in Checked(name) : Not(Arg(arguments, k))

(***************************************************************************)
(* Outbound requests                                                       *)
(***************************************************************************)
RefsHeads == "refs/heads/"

\* the forty-zero object id that stands for "no previous object"
ZeroObjectId == <<"0000000000000000000000000000000000000000">>

NoBody == [none |-> Undefined]

Request(method, ep, url, body) == [method |-> method, ep |-> ep, url |-> url, body |-> body]

RepoUrl(projectId, repositoryId) ==
  Tpl(projectId) \o <<"/_apis/git/repositories/">> \o Tpl(repositoryId)

getProjectsReq == Request("GET", "projects", <<"_apis/projects?api-version=7.1">>, NoBody)

getRepositoriesReq(projectId) ==
  Request("GET", "repos.list", Tpl(projectId) \o <<"/_apis/git/repositories?api-version=7.1">>, NoBody)

createRepositoryReq(projectId, name, description) ==
  Request("POST", "repos.create", <<"_apis/git/repositories?api-version=7.1">>,
          [name |-> name, project |-> Obj([id |-> projectId]),
           defaultBranch |-> Str(<<"main">>), description |-> description])

createPullRequestReq(projectId, repositoryId, sourceBranch, targetBranch, title, description) ==
  Request("POST", "pullrequests", RepoUrl(projectId, repositoryId) \o <<"/pullrequests?api-version=7.1">>,
          [sourceRefName |-> Str(<<RefsHeads>> \o Tpl(sourceBranch)),
           targetRefName |-> Str(<<RefsHeads>> \o Tpl(targetBranch)),
           title |-> title, description |-> description])

addIssueCommentReq(projectId, issueId, comment) ==
  Request("POST", "comments",
          Tpl(projectId) \o <<"/_apis/wit/workitems/">> \o Tpl(issueId) \o <<"/comments?api-version=7.1">>,
          [text |-> comment])

getBranchesReq(projectId, repositoryId) ==
  Request("GET", "refs.list", RepoUrl(projectId, repositoryId) \o <<"/refs?filter=heads", "&", "api-version=7.1">>, NoBody)

getCommitsReq(projectId, repositoryId, branch) ==
  Request("GET", "commits",
          RepoUrl(projectId, repositoryId) \o <<"/commits?searchCriteria.itemVersion.version=">>
            \o Tpl(branch) \o <<"&", "api-version=7.1">>, NoBody)

getFileContentReq(projectId, repositoryId, filePath, branch) ==
  Request("GET", "items",
          RepoUrl(projectId, repositoryId) \o <<"/items?path=">> \o Tpl(filePath)
            \o <<"&", "versionDescriptor.version=">> \o Tpl(branch) \o <<"&", "api-version=7.1">>, NoBody)

searchCodeReq(projectId, repositoryId, searchText) ==
  Request("GET", "items.search",
          RepoUrl(projectId, repositoryId) \o <<"/items?search=">> \o Tpl(searchText) \o <<"&", "api-version=7.1">>, NoBody)

\* top: number = 100
DefaultTop(top) == IF top.t = "undefined" THEN [t |-> "number", v |-> <<"100">>] ELSE top

\* encodeURIComponent: "/" is escaped, the other tokens used here are unreserved
EncodeURIComponent(s) ==
  [i \in 1..Len(s) |-> IF s[i] = RefsHeads THEN "refs%2Fheads%2F" ELSE s[i]]

searchUsersReq(query, top) ==
  Request("GET", "users",
          <<"_apis/graph/users?searchString=">> \o EncodeURIComponent(Tpl(query))
            \o <<"&", "api-version=7.1-preview.1", "&", "$top=">> \o Tpl(DefaultTop(top)), NoBody)

getRepositoryReq(projectId, repositoryId) ==
  Request("GET", "repos.get", RepoUrl(projectId, repositoryId) \o <<"?api-version=7.1">>, NoBody)

\* branchName is the string interpolated into the URL
getLatestCommitReq(projectId, repositoryId, branchName) ==
  Request("GET", "commits",
          RepoUrl(projectId, repositoryId) \o <<"/commits?searchCriteria.itemVersion.version=">>
            \o branchName \o <<"&", "searchCriteria.$top=1", "&", "api-version=7.1">>, NoBody)

\* mutant: the two object ids are swapped
createBranchReq_Swapped(projectId, repositoryId, branchName, commitId) ==
  Request("POST", "refs.post", RepoUrl(projectId, repositoryId) \o <<"/refs?api-version=7.1">>,
          [name |-> Str(<<RefsHeads>> \o Tpl(branchName)),
           newObjectId |-> Str(ZeroObjectId),
           oldObjectId |-> commitId])

createBranchReq(projectId, repositoryId, branchName, commitId) ==
  Request("POST", "refs.post", RepoUrl(projectId, repositoryId) \o <<"/refs?api-version=7.1">>,
          [name |-> Str(<<RefsHeads>> \o Tpl(branchName)),
           newObjectId |-> commitId,
           oldObjectId |-> Str(ZeroObjectId)])

\* branchName.startsWith('refs/heads/') ? branchName : `refs/heads/${branchName}`
FormattedBranchName(branchName) ==
  IF StartsWith(branchName, <<RefsHeads>>) THEN branchName ELSE <<RefsHeads>> \o branchName

updateBranchReq(projectId, repositoryId, branchName, newCommitId, oldCommitId) ==
  Request("POST", "refs.post", RepoUrl(projectId, repositoryId) \o <<"/refs?api-version=7.1">>,
          [name |-> Str(FormattedBranchName(Tpl(branchName))),
           newObjectId |-> newCommitId,
           oldObjectId |-> oldCommitId])

getBranchRefReq(projectId, repositoryId, branchName) ==
  Request("GET", "refs.get",
          RepoUrl(projectId, repositoryId) \o <<"/refs?filter=">>
            \o EncodeURIComponent(FormattedBranchName(Tpl(branchName))) \o <<"&", "api-version=7.1">>,
          NoBody)

\* the push of createOrUpdateFile (PUT) and of pushFiles (POST)
pushReq(method, projectId, repositoryId, branch, latestCommitId, commitMessage, changes) ==
  Request(method, "pushes", RepoUrl(projectId, repositoryId) \o <<"/pushes?api-version=7.1">>,
          [name |-> Str(<<RefsHeads>> \o Tpl(branch)),
           oldObjectId |-> latestCommitId,
           comment |-> commitMessage,
           changes |-> changes])

importReq(targetProject, newRepo, sourceRepo) ==
  Request("POST", "import",
          Tpl(targetProject) \o <<"/_apis/git/repositories/">> \o Tpl(Get(newRepo, "id"))
            \o <<"/importRequests?api-version=7.1">>,
          [url |-> Get(sourceRepo, "remoteUrl")])

\* the WIQL text: the fixed SELECT with one AND clause per filter given
WiqlQuery(projectId, query, state, type, assignedTo) ==
  <<"SELECT ... WHERE [System.TeamProject] = '">> \o Tpl(projectId)
    \o <<"' AND CONTAINS(System.Title, '">> \o Tpl(query) \o <<"')">>
    \o (IF Not(state) THEN << >> ELSE <<" AND [System.State] = '">> \o Tpl(state) \o <<"'">>)
    \o (IF Not(type) THEN << >> ELSE <<" AND [System.WorkItemType] = '">> \o Tpl(type) \o <<"'">>)
    \o (IF Not(assignedTo) THEN << >> ELSE <<" AND [System.AssignedTo] = '">> \o Tpl(assignedTo) \o <<"'">>)
    \o <<" ORDER BY [System.ChangedDate] DESC">>

wiqlReq(projectId, query, state, type, assignedTo, top) ==
  Request("POST", "wiql",
          Tpl(projectId) \o <<"/_apis/wit/wiql?api-version=7.1", "&", "$top=">> \o Tpl(DefaultTop(top)),
          [query |-> Str(WiqlQuery(projectId, query, state, type, assignedTo))])

\* workItems.map(item => item.id).join(',')
JoinIds(items) ==
  LET F[i \in 0..Len(items)] ==
        IF i = 0 THEN << >>
        ELSE F[i - 1] \o (IF i = 1 THEN << >> ELSE <<",">>) \o Tpl(Get(items[i], "id"))
  IN  F[Len(items)]

workItemsReq(workItems) ==
  Request("GET", "workitems",
          <<"_apis/wit/workitems?ids=">> \o JoinIds(workItems.v) \o <<"&", "api-version=7.1">>, NoBody)

(***************************************************************************)
(* The remote platform (mock backend).  Its answer to a request is a       *)
(* function of its state and of the request.                               *)
(***************************************************************************)
BranchNames == {<<"main">>, <<"dev">>}
NoHead == << >>
InitialCommit == <<"c0">>

CommitName(n) ==
  CASE n = 1 -> <<"c1">> [] n = 2 -> <<"c2">> [] n = 3 -> <<"c3">>
    [] n = 4 -> <<"c4">> [] OTHER -> <<"c5">>

KnownCommits(p) == {InitialCommit} \cup {CommitName(n) : n \in 1..p.pushed}

Faults == {"none", "http", "net"}

HeadOf(p, b) == IF b \in DOMAIN p.heads THEN p.heads[b] ELSE NoHead

Ok(data, p) == [ok |-> TRUE, data |-> data, err |-> NoError, plat |-> p]
Fail(err, p) == [ok |-> FALSE, data |-> Undefined, err |-> err, plat |-> p]

HttpStatusError(status, bodyMessage) ==
  AxiosError(<<"Request failed with status code ", status>>, TRUE, bodyMessage)

\* the branch a ref name addresses on the platform
RefBranch(name) == IF StartsWith(name, <<RefsHeads>>) THEN Tail(name) ELSE name

CommitList(p, head) ==
  LET items == IF head = NoHead THEN << >> ELSE <<Obj([commitId |-> Str(head)])>>
  IN  IF p.bareArrays THEN Arr(items)
      ELSE Obj([count |-> Str(<<"n">>), value |-> Arr(items)])

Respond(p, req) ==
  IF p.fault = "http" THEN Fail(HttpStatusError("404", <<"not found">>), p)
  ELSE IF p.fault = "net" THEN Fail(AxiosError(<<"Network Error">>, FALSE, << >>), p)
  ELSE CASE req.ep = "commits" ->
              Ok(CommitList(p, HeadOf(p, Between(req.url, "/commits?searchCriteria.itemVersion.version="))), p)
         [] req.ep = "items" ->
              LET head == HeadOf(p, Between(req.url, "versionDescriptor.version="))
                  path == Between(req.url, "/items?path=")
              IN  IF head = NoHead
                  THEN Fail(HttpStatusError("404", <<"branch not found">>), p)
                  ELSE Ok(Obj([path |-> Str(path), commitId |-> Str(head),
                               content |-> Str(<<"content@">> \o head)]), p)
         [] req.ep = "repos.get" ->
              Ok(Obj([id |-> Str(<<"r1">>), name |-> Str(<<"repo">>),
                      defaultBranch |-> Str(<<RefsHeads, "main">>),
                      remoteUrl |-> Str(<<"https://remote/repo">>)]), p)
         [] req.ep = "refs.post" ->
              LET b   == RefBranch(req.body.name.v)
                  old == req.body.oldObjectId
                  new == req.body.newObjectId
                  accepted ==
                    /\ b \in DOMAIN p.heads
                    /\ new.t = "string" /\ new.v \in KnownCommits(p)
                    /\ old.t = "string"
                    /\ \/ old.v = ZeroObjectId /\ p.heads[b] = NoHead
                       \/ old.v = p.heads[b] /\ p.heads[b] # NoHead
              IN  IF accepted
                  THEN Ok(Obj([value |-> Arr(<<Obj([name |-> req.body.name, newObjectId |-> new,
                                                     oldObjectId |-> old])>>)]),
                          [p EXCEPT !.heads[b] = new.v])
                  ELSE Fail(HttpStatusError("400", <<"ref update rejected">>), p)
         [] req.ep = "pushes" ->
              LET b   == RefBranch(req.body.name.v)
                  old == req.body.oldObjectId
                  accepted ==
                    /\ b \in DOMAIN p.heads
                    /\ p.heads[b] # NoHead
                    /\ old.t = "string" /\ old.v = p.heads[b]
                  c == CommitName(p.pushed + 1)
              IN  IF accepted
                  THEN Ok(Obj([pushId |-> Str(c), refUpdates |-> Arr(<<Obj([name |-> req.body.name])>>)]),
                          [p EXCEPT !.heads[b] = c, !.pushed = p.pushed + 1])
                  ELSE Fail(HttpStatusError("409", <<"stale oldObjectId">>), p)
         [] req.ep = "refs.get" ->
              LET filter == Between(req.url, "/refs?filter=")
                  b == IF StartsWith(filter, <<"refs%2Fheads%2F">>) THEN Tail(filter) ELSE filter
                  refs == IF HeadOf(p, b) = NoHead THEN << >>
                          ELSE <<Obj([name |-> Str(<<RefsHeads>> \o b), objectId |-> Str(HeadOf(p, b))])>>
              IN  Ok(Obj([count |-> Str(<<"n">>), value |-> Arr(refs)]), p)
         [] req.ep = "repos.create" ->
              Ok(Obj([id |-> Str(<<"r2">>), name |-> req.body.name]), p)
         [] req.ep = "wiql" ->
              \* no work item of the mock is in a state a filter names
              IF Includes(req.body.query.v, <<" AND [System.State] = '">>)
              THEN Ok(Obj([workItems |-> Arr(<< >>)]), p)
              ELSE Ok(Obj([workItems |-> Arr(<<Obj([id |-> Str(<<"7">>)]), Obj([id |-> Str(<<"9">>)])>>)]), p)
         [] OTHER ->
              Ok(Obj([count |-> Str(<<"1">>), value |-> Arr(<<Obj([id |-> Str(<<"x1">>)])>>)]), p)

(***************************************************************************)
(* Operation handlers.  A handler runs from one await to the next: given   *)
(* the await it is resumed at and the platform's answer, it sends its next *)
(* request, returns, or throws.                                            *)
(***************************************************************************)
NoLoc == [sourceBranch |-> << >>, commitId |-> Undefined, sourceRepo |-> Undefined,
          newRepo |-> Undefined, targetProject |-> Undefined]

NoResponse == [ok |-> FALSE, data |-> Undefined, err |-> NoError]

Send(at, req, loc) == [k |-> "send", at |-> at, req |-> req, loc |-> loc, val |-> Undefined, err |-> NoError]
Return(val)        == [k |-> "return", at |-> "", req |-> getProjectsReq, loc |-> NoLoc, val |-> val, err |-> NoError]
Throw(err)         == [k |-> "throw", at |-> "", req |-> getProjectsReq, loc |-> NoLoc, val |-> Undefined, err |-> err]

\* the result of an awaited inner function
Returned(val) == [threw |-> FALSE, val |-> val, err |-> NoError]
Thrown(err)   == [threw |-> TRUE, val |-> Undefined, err |-> err]

\* a ?? b
Coalesce(a, b) == IF a.t \in {"undefined", "null"} THEN b ELSE a

\* a || b
OrElse(a, b) == IF Not(a) THEN b ELSE a

\* get_projects / get_repositories: this.axiosInstance.get, response.data.value
directGet(at, req, resp) ==
  IF at = "start" THEN Send("get", req, NoLoc)
  ELSE IF resp.ok THEN Return(Get(resp.data, "value"))
  ELSE Throw(resp.err)

\* mutant: a failed request is issued a second time
singleRequest_Retry(at, req, resp) ==
  IF at = "start" THEN Send("request", req, NoLoc)
  ELSE IF resp.ok THEN Return(resp.data)
  ELSE IF at = "request" THEN Send("retry", req, NoLoc)
  ELSE Throw(OperationCatch(resp.err))

\* the functions of operations/ that issue one request and return response.data
singleRequest(at, req, resp) ==
  IF at = "start" THEN Send("request", req, NoLoc)
  ELSE IF resp.ok THEN Return(resp.data)
  ELSE Throw(OperationCatch(resp.err))

createRepository(at, projectId, name, description, resp) ==
  singleRequest(at, createRepositoryReq(projectId, name, description), resp)

createPullRequest(at, projectId, repositoryId, sourceBranch, targetBranch, title, description, resp) ==
  singleRequest(at, createPullRequestReq(projectId, repositoryId, sourceBranch, targetBranch, title, description), resp)

addIssueComment(at, projectId, repositoryId, issueId, comment, resp) ==
  singleRequest(at, addIssueCommentReq(projectId, issueId, comment), resp)

getBranches(at, projectId, repositoryId, resp) ==
  singleRequest(at, getBranchesReq(projectId, repositoryId), resp)

getCommits(at, projectId, repositoryId, branch, resp) ==
  singleRequest(at, getCommitsReq(projectId, repositoryId, branch), resp)

\* mutant: the read is issued as a write that moves the branch head
getFileContent_Writes(at, projectId, repositoryId, filePath, branch, resp) ==
  singleRequest(at, pushReq("POST", projectId, repositoryId, branch, Str(InitialCommit), filePath, Arr(<< >>)), resp)

getFileContent(at, projectId, repositoryId, filePath, branch, resp) ==
  singleRequest(at, getFileContentReq(projectId, repositoryId, filePath, branch), resp)

\* filePath and top are accepted and not used
searchCode(at, projectId, repositoryId, searchText, filePath, top, resp) ==
  singleRequest(at, searchCodeReq(projectId, repositoryId, searchText), resp)

searchUsers(at, query, top, resp) ==
  IF at = "start" THEN Send("request", searchUsersReq(query, top), NoLoc)
  ELSE IF resp.ok
       THEN Return(Obj([count |-> Get(resp.data, "count"), value |-> Get(resp.data, "value")]))
       ELSE Throw(OperationCatch(resp.err))

\* response.data.value[0]
ValueAt0(data) ==
  LET value == Get(data, "value")
  IN  IF value.t \in {"undefined", "null"} THEN Thrown(TypeError) ELSE Returned(At0(value))

updateBranch(at, projectId, repositoryId, branchName, newCommitId, oldCommitId, resp) ==
  IF at = "start"
  THEN Send("request", updateBranchReq(projectId, repositoryId, branchName, newCommitId, oldCommitId), NoLoc)
  ELSE IF resp.ok
       THEN LET r == ValueAt0(resp.data)
            IN  IF r.threw THEN Throw(OperationCatch(r.err)) ELSE Return(r.val)
       ELSE Throw(OperationCatch(resp.err))

\* getBranchRef: GET refs?filter=<formatted name>, the first ref of the answer
getBranchRef(at, projectId, repositoryId, branchName, resp) ==
  IF at = "start" THEN Send("request", getBranchRefReq(projectId, repositoryId, branchName), NoLoc)
  ELSE IF resp.ok
       THEN LET value == Get(resp.data, "value")
            IN  IF Not(value) \/ EmptyLength(value)
                THEN Throw(OperationCatch(AzureDevOpsError(<<"Branch ">> \o Tpl(branchName) \o <<" not found">>)))
                ELSE Return(At0(value))
       ELSE Throw(OperationCatch(resp.err))

\* getDefaultBranch, resumed with the answer to its GET
getDefaultBranch(resp) ==
  IF resp.ok THEN Returned(Get(resp.data, "defaultBranch"))
  ELSE Thrown(OperationCatch(resp.err))

\* getLatestCommit, resumed with the answer to its GET
getLatestCommit(resp, branchName) ==
  IF resp.ok
  THEN LET value == Get(resp.data, "value")
       IN  IF Not(value) \/ EmptyLength(value)
           THEN Thrown(OperationCatch(AzureDevOpsError(<<"No commits found for branch ">> \o branchName)))
           ELSE Returned(Get(At0(value), "commitId"))
  ELSE Thrown(OperationCatch(resp.err))

\* createBranch: [getDefaultBranch,] getLatestCommit, POST refs
createBranch(at, projectId, repositoryId, branchName, fromBranch, loc, resp) ==
  CASE at = "start" ->
         \* fromBranch || (await getDefaultBranch(...)).replace('refs/heads/', '')
         IF Not(fromBranch)
         THEN Send("getDefaultBranch", getRepositoryReq(projectId, repositoryId), loc)
         ELSE Send("getLatestCommit", getLatestCommitReq(projectId, repositoryId, Tpl(fromBranch)),
                   [loc EXCEPT !.sourceBranch = Tpl(fromBranch)])
    [] at = "getDefaultBranch" ->
         LET r == getDefaultBranch(resp)
         IN  IF r.threw THEN Throw(OperationCatch(r.err))
             ELSE IF r.val.t # "string" THEN Throw(OperationCatch(TypeError))
             ELSE LET sourceBranch == ReplaceFirst(r.val.v, RefsHeads)
                  IN  Send("getLatestCommit", getLatestCommitReq(projectId, repositoryId, sourceBranch),
                           [loc EXCEPT !.sourceBranch = sourceBranch])
    [] at = "getLatestCommit" ->
         LET r == getLatestCommit(resp, loc.sourceBranch)
         IN  IF r.threw THEN Throw(OperationCatch(r.err))
             ELSE Send("createRef", createBranchReq(projectId, repositoryId, branchName, r.val),
                       [loc EXCEPT !.commitId = r.val])
    [] OTHER ->
         IF resp.ok
         THEN LET r == ValueAt0(resp.data)
              IN  IF r.threw THEN Throw(OperationCatch(r.err)) ELSE Return(r.val)
         ELSE Throw(OperationCatch(resp.err))

\* [{changeType: 'edit', item: {path}, newContent: {contentType: 'rawtext', content}}]
EditChange(path, content) ==
  Obj([changeType |-> Str(<<"edit">>), item |-> Obj([path |-> path]),
       newContent |-> Obj([contentType |-> Str(<<"rawtext">>), content |-> content])])

\* createOrUpdateFile (exported also as updateFileContent): GET commits, PUT pushes
createOrUpdateFile(at, projectId, repositoryId, filePath, content, commitMessage, branch, loc, resp) ==
  CASE at = "start" ->
         Send("commits", getCommitsReq(projectId, repositoryId, branch), loc)
    [] at = "commits" ->
         IF resp.ok
         THEN LET first == At0(resp.data)       \* commitsResponse.data[0]
              IN  IF first.t \in {"undefined", "null"}
                  THEN Throw(OperationCatch(TypeError))
                  ELSE Send("push",
                            pushReq("PUT", projectId, repositoryId, branch, Get(first, "commitId"),
                                    commitMessage, Arr(<<EditChange(filePath, content)>>)),
                            [loc EXCEPT !.commitId = Get(first, "commitId")])
         ELSE Throw(OperationCatch(resp.err))
    [] OTHER ->
         IF resp.ok THEN Return(resp.data) ELSE Throw(OperationCatch(resp.err))

\* files.map(file => ...)
MapChanges(files) ==
  Arr([i \in 1..Len(files.v) |-> EditChange(Get(files.v[i], "path"), Get(files.v[i], "content"))])

\* pushFiles: getLatestCommit, POST pushes
pushFiles(at, projectId, repositoryId, branch, files, commitMessage, loc, resp) ==
  CASE at = "start" ->
         Send("getLatestCommit", getLatestCommitReq(projectId, repositoryId, Tpl(branch)), loc)
    [] at = "getLatestCommit" ->
         LET r == getLatestCommit(resp, Tpl(branch))
         IN  IF r.threw THEN Throw(OperationCatch(r.err))
             ELSE IF files.t # "array" THEN Throw(OperationCatch(TypeError))
             ELSE Send("push",
                       pushReq("POST", projectId, repositoryId, branch, r.val, commitMessage, MapChanges(files)),
                       [loc EXCEPT !.commitId = r.val])
    [] OTHER ->
         IF resp.ok THEN Return(resp.data) ELSE Throw(OperationCatch(resp.err))

\* forkRepository: GET source repository, createRepository, POST importRequests
forkRepository(at, projectId, repositoryId, name, targetProjectId, loc, resp) ==
  CASE at = "start" ->
         Send("getSource", getRepositoryReq(projectId, repositoryId), loc)
    [] at = "getSource" ->
         IF resp.ok
         THEN LET sourceRepo    == resp.data
                  targetProject == OrElse(targetProjectId, projectId)
                  description   == Str(<<"Fork of ">> \o Tpl(Get(sourceRepo, "name")) \o <<": ">>
                                         \o Tpl(OrElse(Get(sourceRepo, "description"), Str(<< >>))))
              IN  Send("createRepository", createRepositoryReq(targetProject, name, description),
                       [loc EXCEPT !.sourceRepo = sourceRepo, !.targetProject = targetProject])
         ELSE Throw(OperationCatch(resp.err))
    [] at = "createRepository" ->
         LET r == createRepository("request", loc.targetProject, name, Undefined, resp)
         IN  IF r.k = "throw" THEN Throw(OperationCatch(r.err))
             ELSE Send("import", importReq(loc.targetProject, r.val, loc.sourceRepo),
                       [loc EXCEPT !.newRepo = r.val])
    [] OTHER ->
         IF resp.ok
         THEN Return(Obj([source |-> loc.sourceRepo] @@ loc.newRepo.v))
         ELSE Throw(OperationCatch(resp.err))

\* searchWorkItems: POST wiql, then GET the work items when there are any
searchWorkItems(at, projectId, query, state, type, assignedTo, top, loc, resp) ==
  CASE at = "start" ->
         Send("wiql", wiqlReq(projectId, query, state, type, assignedTo, top), loc)
    [] at = "wiql" ->
         IF resp.ok
         THEN LET workItems == Get(resp.data, "workItems")
              IN  IF ~Not(workItems) /\ ~EmptyLength(workItems)
                  THEN Send("details", workItemsReq(workItems), loc)
                  ELSE Return(Obj([count |-> [t |-> "number", v |-> <<"0">>], value |-> Arr(<< >>)]))
         ELSE Throw(OperationCatch(resp.err))
    [] OTHER ->
         IF resp.ok
         THEN Return(Obj([count |-> Get(resp.data, "count"), value |-> Get(resp.data, "value")]))
         ELSE Throw(OperationCatch(resp.err))

(***************************************************************************)
(* The CallToolRequestSchema handler                                       *)
(***************************************************************************)
\* mutant: names are compared case-insensitively
Branch_CaseInsensitive(name) ==
  LET lower == CASE name = "GET_PROJECTS" -> "get_projects"
                 [] name = "Create_Branch" -> "create_branch"
                 [] OTHER -> name
  IN  IF lower \in HandledNames THEN lower ELSE "else"

\* mutant: once a handler promise was rejected the dispatcher serves nothing
Branch_AfterRejection(name) ==
  IF rejected THEN "else" ELSE IF name \in HandledNames THEN name ELSE "else"

\* the branch of the if / else-if chain that request.params.name === '...' selects
Branch(name) == IF name \in HandledNames THEN name ELSE "else"

\* the body of the try block of each branch, resumed at an await
Handler(branch, at, a, loc, resp) ==
  CASE branch = "get_projects" ->
         directGet(at, getProjectsReq, resp)
    [] branch = "get_repositories" ->
         directGet(at, getRepositoriesReq(Arg(a, "project_id")), resp)
    [] branch = "create_repository" ->
         createRepository(at, Arg(a, "project_id"), Arg(a, "name"),
                          Coalesce(Arg(a, "description"), Str(<< >>)), resp)
    [] branch = "create_pull_request" ->
         createPullRequest(at, Arg(a, "project_id"), Arg(a, "repository_id"), Arg(a, "source_branch"),
                           Arg(a, "target_branch"), Arg(a, "title"),
                           Coalesce(Arg(a, "description"), Str(<< >>)), resp)
    [] branch = "add_issue_comment" ->
         addIssueComment(at, Arg(a, "project_id"), Arg(a, "repository_id"), Arg(a, "issue_id"),
                         Arg(a, "comment"), resp)
    [] branch = "get_branches" ->
         getBranches(at, Arg(a, "project_id"), Arg(a, "repository_id"), resp)
    [] branch = "get_commits" ->
         getCommits(at, Arg(a, "project_id"), Arg(a, "repository_id"), Arg(a, "branch"), resp)
    [] branch = "get_file_content" ->
         getFileContent(at, Arg(a, "project_id"), Arg(a, "repository_id"), Arg(a, "file_path"),
                        Arg(a, "branch"), resp)
    [] branch = "update_file_content" ->
         \* updateFileContent is createOrUpdateFile under another name; it is
         \* called with (filePath, branch, content, commitMessage) in this order
         createOrUpdateFile(at, Arg(a, "project_id"), Arg(a, "repository_id"), Arg(a, "file_path"),
                            Arg(a, "branch"), Arg(a, "content"), Arg(a, "commit_message"), loc, resp)
    [] branch = "search_code" ->
         searchCode(at, Arg(a, "project_id"), Arg(a, "repository_id"), Arg(a, "search_text"),
                    Arg(a, "file_path"), Arg(a, "top"), resp)
    [] branch = "search_work_items" ->
         searchWorkItems(at, Arg(a, "project_id"), Arg(a, "query"), Arg(a, "state"), Arg(a, "type"),
                         Arg(a, "assigned_to"), Arg(a, "top"), loc, resp)
    [] branch = "search_users" ->
         searchUsers(at, Arg(a, "query"), Arg(a, "top"), resp)
    [] branch = "fork_repository" ->
         forkRepository(at, Arg(a, "project_id"), Arg(a, "repository_id"), Arg(a, "name"),
                        Arg(a, "target_project_id"), loc, resp)
    [] branch = "create_branch" ->
         createBranch(at, Arg(a, "project_id"), Arg(a, "repository_id"), Arg(a, "branch"),
                      Arg(a, "from_branch"), loc, resp)
    [] branch = "update_branch" ->
         updateBranch(at, Arg(a, "project_id"), Arg(a, "repository_id"), Arg(a, "branch"),
                      Arg(a, "new_commit_id"), Arg(a, "old_commit_id"), resp)
    [] branch = "push_files" ->
         pushFiles(at, Arg(a, "project_id"), Arg(a, "repository_id"), Arg(a, "branch"),
                   Arg(a, "files"), Arg(a, "commit_message"), loc, resp)
    [] OTHER ->
         createOrUpdateFile(at, Arg(a, "project_id"), Arg(a, "repository_id"), Arg(a, "path"),
                            Arg(a, "content"), Arg(a, "commit_message"), Arg(a, "branch"), loc, resp)

\* JSON.stringify(value, null, 2)
RECURSIVE SeqOfSet(_)
SeqOfSet(S) == IF S = {} THEN << >>
               ELSE LET x == CHOOSE y \in S : TRUE IN <<x>> \o SeqOfSet(S \ {x})

RECURSIVE Stringify(_)
Stringify(x) ==
  CASE x.t = "string" -> <<"<q>">> \o x.v \o <<"<q>">>
    [] x.t \in {"number", "boolean"} -> x.v
    [] x.t = "null" -> <<"null">>
    [] x.t = "array" ->
         LET F[i \in 0..Len(x.v)] ==
               IF i = 0 THEN << >>
               ELSE F[i - 1] \o (IF i = 1 THEN << >> ELSE <<",">>)
                      \o (IF x.v[i].t = "undefined" THEN <<"null">> ELSE Stringify(x.v[i]))
         IN  <<"[">> \o F[Len(x.v)] \o <<"]">>
    [] x.t = "object" ->
         LET keys == SeqOfSet({k \in DOMAIN x.v : x.v[k].t # "undefined"})
             F[i \in 0..Len(keys)] ==
               IF i = 0 THEN << >>
               ELSE F[i - 1] \o (IF i = 1 THEN << >> ELSE <<",">>)
                      \o <<keys[i], ":">> \o Stringify(x.v[keys[i]])
         IN  <<"{">> \o F[Len(keys)] \o <<"}">>
    [] OTHER -> <<"undefined">>

NoOutcome == [kind |-> "none", isError |-> FALSE, text |-> << >>, err |-> NoError]

\* mutant: the handler completes without a result
TextResult_None(text) == NoOutcome

\* return { content: [{ type: 'text', text }] }
TextResult(text) == [kind |-> "result", isError |-> FALSE, text |-> text, err |-> NoError]

\* return { content: [{ type: 'text', text }], isError: true }
ErrorResult(text) == [kind |-> "result", isError |-> TRUE, text |-> text, err |-> NoError]

\* the handler's promise rejects with err
Rejection(err) == [kind |-> "thrown", isError |-> FALSE, text |-> err.message, err |-> err]

\* mutant: every branch tests axios.isAxiosError, as the first two do
DispatcherCatch_AxiosOnly(branch, error) ==
  IF error.cls = "AxiosError"
  THEN ErrorResult(ApiErrorPrefix \o error.message)
  ELSE Rejection(error)

\* the catch block of each branch
DispatcherCatch(branch, error) ==
  IF branch \in {"get_projects", "get_repositories"}
  THEN IF error.cls = "AxiosError"                      \* axios.isAxiosError(error)
       THEN ErrorResult(ApiErrorPrefix \o error.message)
       ELSE Rejection(error)
  ELSE IF error.cls = "AzureDevOpsError"                \* error instanceof AzureDevOpsError
       THEN ErrorResult(ApiErrorPrefix \o error.message)
       ELSE Rejection(error)

(***************************************************************************)
(* Inputs                                                                  *)
(***************************************************************************)
\* names a client may send: the handled ones and near misses of them
UnknownNames == {"GET_PROJECTS", "Create_Branch", "get_project", "get_projects_v2",
                 "search_repositories", ""}

RequestNames == HandledNames \cup UnknownNames

FileOperation == Obj([path |-> Str(<<"a.txt">>), content |-> Str(<<"hello">>)])

\* truthy values a client may give to an argument
TruthyValues(k) ==
  CASE k \in {"branch", "from_branch"} -> {Str(<<"main">>), Str(<<"dev">>)}
    [] k = "commit_message"            -> {Str(<<"msg">>), Str(<<"main">>)}
    [] k = "files"                     -> {Arr(<<FileOperation>>), Str(<<"not-an-array">>)}
    [] k \in {"new_commit_id", "old_commit_id"} -> {Str(InitialCommit), Str(ZeroObjectId)}
    [] k = "top"                       -> {[t |-> "number", v |-> <<"5">>]}
    [] OTHER                           -> {Str(<<"X">>)}

\* falsy values a client may give to an argument
FalsyValues(k) ==
  CASE k = "top" -> {[t |-> "number", v |-> <<"0">>]}
    [] k = "files" -> {}
    [] OTHER -> {Str(<< >>)}

AnyValues(k) == TruthyValues(k) \cup FalsyValues(k)

\* all maps that give each key of K one of its values or leave it out
RECURSIVE PartialMaps(_)
PartialMaps(K) ==
  IF K = {} THEN {<< >>}
  ELSE LET k == CHOOSE x \in K : TRUE
           rest == PartialMaps(K \ {k})
       IN  rest \cup {(k :> v) @@ m : m \in rest, v \in AnyValues(k)}

\* all maps that give each key of K one of its truthy values
RECURSIVE TruthyMaps(_)
TruthyMaps(K) ==
  IF K = {} THEN {<< >>}
  ELSE LET k == CHOOSE x \in K : TRUE
       IN  {(k :> v) @@ m : m \in TruthyMaps(K \ {k}), v \in TruthyValues(k)}

Drop(m, k) == [x \in DOMAIN m \ {k} |-> m[x]]

\* every arguments value over the tool's parameters: missing, or a map that
\* gives each parameter a truthy value, a falsy value, or leaves it out
AllArguments(name) ==
  IF name \in HandledNames
  THEN {Undefined} \cup {Obj(m) : m \in PartialMaps(Checked(name) \cup Unchecked(name))}
  ELSE {Undefined, Obj(<< >>), Obj([project_id |-> Str(<<"X">>)])}

\* the arguments that give every tested parameter a truthy value
CompleteArguments(name) ==
  {Obj(c @@ o) : c \in TruthyMaps(Checked(name)),
                 o \in PartialMaps(Unchecked(name))}

\* the inputs of the long-running specification: the complete arguments, and
\* those with one tested parameter left out or given the empty string
SomeArguments(name) ==
  IF name \in HandledNames
  THEN LET base == CHOOSE c \in TruthyMaps(Checked(name)) : TRUE
       IN  CompleteArguments(name)
             \cup {Undefined}
             \cup {Obj(Drop(base, k)) : k \in Checked(name)}
             \cup {Obj([base EXCEPT ![k] = Str(<< >>)]) : k \in Checked(name) \cap {"content", "project_id"}}
  ELSE {Undefined, Obj([project_id |-> Str(<<"X">>)])}

(***************************************************************************)
(* State                                                                   *)
(***************************************************************************)
NoHeads == (<<"main">> :> NoHead) @@ (<<"dev">> :> NoHead)

\* before: history, the branch heads of the platform when the request arrived
Idle == [pc |-> "idle", name |-> "", arguments |-> Undefined, branch |-> "", at |-> "",
         loc |-> NoLoc, before |-> NoHeads]

\* a request of the log, with (history) the platform's answer to it
Entry(req) == [req |-> req, status |-> "pending", data |-> Undefined, err |-> NoError]

Answered(e, r) ==
  [e EXCEPT !.status = IF r.ok THEN "ok" ELSE "failed", !.data = r.data, !.err = r.err]

InitialPlatforms ==
  {[fault |-> f, bareArrays |-> b, pushed |-> 0,
    heads |-> (<<"main">> :> InitialCommit) @@ (<<"dev">> :> NoHead)] :
     f \in Faults, b \in BOOLEAN}

Init ==
  /\ server = "running"
  /\ plat \in InitialPlatforms
  /\ inv = Idle
  /\ log = << >>
  /\ outcome = NoOutcome
  /\ rejected = FALSE
  /\ prev = Idle

(***************************************************************************)
(* Actions                                                                 *)
(***************************************************************************)
\* the handler ran up to its next await, its return or its throw
Advance(branch, step, answered) ==
  \E st \in {step} :
    CASE st.k = "send" ->
           /\ inv' = [inv EXCEPT !.pc = "await", !.branch = branch, !.at = st.at, !.loc = st.loc]
           /\ log' = Append(answered, Entry(st.req))
           /\ outcome' = NoOutcome
      [] st.k = "return" ->
           /\ inv' = [inv EXCEPT !.pc = "done", !.branch = branch]
           /\ log' = answered
           /\ outcome' = TextResult(Stringify(st.val))
      [] OTHER ->
           /\ inv' = [inv EXCEPT !.pc = "done", !.branch = branch]
           /\ log' = answered
           /\ outcome' = DispatcherCatch(branch, st.err)

\* the transport delivers one call_tool request
Deliver(name, arguments) ==
  /\ server = "running"
  /\ inv.pc = "idle"
  /\ plat.pushed < MaxCommits
  /\ inv' = [Idle EXCEPT !.pc = "received", !.name = name, !.arguments = arguments,
                         !.before = plat.heads]
  /\ log' = << >>
  /\ outcome' = NoOutcome
  /\ UNCHANGED <<server, plat, rejected, prev>>

\* the CallToolRequestSchema handler runs on the request, up to its first await
CallTool ==
  /\ server # "exited"
  /\ inv.pc = "received"
  /\ LET branch == Branch(inv.name)
     IN  IF branch = "else"
         THEN /\ inv' = [inv EXCEPT !.pc = "done", !.branch = branch]
              /\ outcome' = Rejection(McpError("MethodNotFound", <<"Unknown tool: ", inv.name>>))
              /\ log' = log
         ELSE IF FailsValidation(branch, inv.arguments)
         THEN /\ inv' = [inv EXCEPT !.pc = "done", !.branch = branch]
              /\ outcome' = Rejection(McpError("InvalidParams", RequiredMessage(branch)))
              /\ log' = log
         ELSE Advance(branch, Handler(branch, "start", inv.arguments, NoLoc, NoResponse), log)
  /\ UNCHANGED <<server, plat, rejected, prev>>

\* the platform answers the pending request and the handler resumes
HttpReply ==
  /\ server # "exited"
  /\ inv.pc = "await"
  /\ \E r \in {Respond(plat, log[Len(log)].req)} :
         /\ plat' = r.plat
         /\ Advance(inv.branch, Handler(inv.branch, inv.at, inv.arguments, inv.loc, r),
                    [log EXCEPT ![Len(log)] = Answered(@, r)])
  /\ UNCHANGED <<server, rejected, prev>>

\* mutant: a rejected handler promise ends the process
AfterRejection_Exits(s) == "exited"

\* what a rejected handler promise does to the server process: the protocol
\* layer answers the request with the error; the process goes on
AfterRejection(s) == s

\* the result (or the error) is sent to the client; nothing of the invocation is kept
Finish ==
  /\ server # "exited"
  /\ inv.pc = "done"
  /\ server' = (IF outcome.kind = "thrown" THEN AfterRejection(server) ELSE server)
  /\ inv' = Idle
  /\ log' = << >>
  /\ outcome' = NoOutcome
  /\ rejected' = (rejected \/ outcome.kind = "thrown")
  /\ UNCHANGED <<plat, prev>>

\* the platform starts or stops failing
SetFault(f) ==
  /\ server # "exited"
  /\ f # plat.fault
  /\ plat' = [plat EXCEPT !.fault = f]
  /\ UNCHANGED <<server, inv, log, outcome, rejected, prev>>

\* process.on('SIGINT'): await this.server.close() ...
Sigint ==
  /\ server = "running"
  /\ server' = "closing"
  /\ UNCHANGED <<plat, inv, log, outcome, rejected, prev>>

\* ... process.exit(0)
Exit ==
  /\ server = "closing"
  /\ server' = "exited"
  /\ UNCHANGED <<plat, inv, log, outcome, rejected, prev>>

Next ==
  \/ \E name \in RequestNames : \E arguments \in SomeArguments(name) : Deliver(name, arguments)
  \/ CallTool
  \/ HttpReply
  \/ Finish
  \/ \E f \in Faults : SetFault(f)
  \/ Sigint
  \/ Exit

Spec == Init /\ [][Next]_vars

(***************************************************************************)
(* One request, every arguments map: the request is already received in    *)
(* the initial state and is served once.                                   *)
(***************************************************************************)
InitValidate ==
  /\ server = "running"
  /\ plat \in InitialPlatforms
  /\ \E name \in RequestNames : \E arguments \in AllArguments(name) :
       inv = [Idle EXCEPT !.pc = "received", !.name = name, !.arguments = arguments,
                          !.before = plat.heads]
  /\ log = << >>
  /\ outcome = NoOutcome
  /\ rejected = FALSE
  /\ prev = Idle

NextValidate ==
  \/ CallTool
  \/ HttpReply
  \/ Finish
  \/ \E f \in Faults : SetFault(f)

SpecValidate == InitValidate /\ [][NextValidate]_vars

\* the handler runs when a request is there and resumes when the platform has
\* answered; the platform answers every request
FairSpecValidate == SpecValidate /\ WF_vars(CallTool) /\ WF_vars(HttpReply)

(***************************************************************************)
(* searchRepositories (operations/repository.ts).  The function is         *)
(* exported by the operations module; no branch of the call_tool           *)
(* dispatcher calls it.  Names, descriptions and queries are sequences of  *)
(* characters.                                                             *)
(***************************************************************************)
MaxRepos == 3
ScenarioSize == 37
MaxPage == 3
LargeSize == 101

DefaultPage == 1
DefaultPerPage == 30

Num(n) == [t |-> "number", v |-> n]

\* a parameter with a default value: the default replaces undefined
Default(x, d) == IF x.t = "undefined" THEN d ELSE x.v

\* String.prototype.toLowerCase, on the letters used
LowerOf(c) ==
  CASE c = "A" -> "a"
    [] c = "P" -> "p"
    [] c = "I" -> "i"
    [] OTHER -> c

toLowerCase(s) == [i \in 1..Len(s) |-> LowerOf(s[i])]

\* Array.prototype.slice(start, end), 0 <= start <= end
Slice(a, start, end) ==
  SubSeq(a, start + 1, IF end < Len(a) THEN end ELSE Len(a))

\* mutant: the number of pages is rounded down
Ceil_Floor(a, b) == a \div b

\* Math.ceil(a / b), 0 <= a, 0 < b
Ceil(a, b) == (a + b - 1) \div b

\* the predicate given to filter
RepoMatches(repo, query) ==
  \/ Includes(toLowerCase(Get(repo, "name").v), toLowerCase(query.v))
  \/ /\ ~Not(Get(repo, "description"))
     /\ Includes(toLowerCase(Get(repo, "description").v), toLowerCase(query.v))

SearchResult(filteredRepos, paginatedRepos, page, perPage) ==
  [total_count |-> Len(filteredRepos),
   items |-> paginatedRepos,
   page |-> page,
   perPage |-> perPage,
   totalPages |-> Ceil(Len(filteredRepos), perPage)]

\* mutant: the page is cut from the listing and then filtered
searchRepositories_SliceThenFilter(at, projectId, query, page, perPage, resp) ==
  IF at = "start" THEN Send("request", getRepositoriesReq(projectId), NoLoc)
  ELSE IF resp.ok
  THEN LET pg == Default(page, DefaultPage)
           pp == Default(perPage, DefaultPerPage)
           matches(repo) == RepoMatches(repo, query)
           startIndex == (pg - 1) * pp
       IN  Return(SearchResult(SelectSeq(Get(resp.data, "value").v, matches),
                               SelectSeq(Slice(Get(resp.data, "value").v, startIndex, startIndex + pp), matches),
                               pg, pp))
  ELSE Throw(OperationCatch(resp.err))

searchRepositories(at, projectId, query, page, perPage, resp) ==
  IF at = "start" THEN Send("request", getRepositoriesReq(projectId), NoLoc)
  ELSE IF resp.ok
  THEN LET pg == Default(page, DefaultPage)
           pp == Default(perPage, DefaultPerPage)
           matches(repo) == RepoMatches(repo, query)
           filteredRepos == SelectSeq(Get(resp.data, "value").v, matches)
           startIndex == (pg - 1) * pp
           paginatedRepos == Slice(filteredRepos, startIndex, startIndex + pp)
       IN  Return(SearchResult(filteredRepos, paginatedRepos, pg, pp))
  ELSE Throw(OperationCatch(resp.err))

\* the platform's answer to the listing request
RespondListing(p, req) ==
  IF p.fault = "http" THEN Fail(HttpStatusError("404", <<"not found">>), p)
  ELSE IF p.fault = "net" THEN Fail(AxiosError(<<"Network Error">>, FALSE, << >>), p)
  ELSE Ok(Obj([count |-> Num(Len(p.repos)), value |-> Arr(p.repos)]), p)

\* repositories of a listing, before they are numbered
RepoKinds ==
  {[name |-> Str(n), description |-> d] :
     n \in {<<"A", "P", "I">>, <<"w", "e", "b">>},
     d \in {Undefined, Str(<<"m", "y", " ", "A", "p", "i">>)}}

Numbered(l) == [i \in 1..Len(l) |-> Obj([id |-> Num(i)] @@ l[i])]

\* every third repository of the scenario listing does not match "api"
ScenarioListing ==
  [i \in 1..ScenarioSize |->
     Obj([id |-> Num(i),
          name |-> Str(IF i % 3 = 0 THEN <<"w", "e", "b">> ELSE <<"m", "y", "-", "A", "p", "i">>),
          description |-> IF i % 2 = 0 THEN Undefined ELSE Str(<< >>)])]

\* a project with many repositories, all of which match "api"
LargeListing ==
  [i \in 1..LargeSize |->
     Obj([id |-> Num(i), name |-> Str(<<"A", "p", "i">>), description |-> Undefined])]

Listings ==
  {Numbered(l) : l \in UNION {[1..k -> RepoKinds] : k \in 0..MaxRepos}}
    \cup {ScenarioListing, LargeListing}

Queries == {Str(<<"a", "p", "i">>), Str(<<"A", "p">>), Str(<<"z">>), Str(<< >>)}

SearchArguments ==
  {Obj([project_id |-> Str(<<"P">>), query |-> q, page |-> pg, perPage |-> pp]) :
     q \in Queries,
     pg \in {Undefined} \cup {Num(n) : n \in 1..MaxPage},
     pp \in {Undefined, Num(1), Num(2), Num(10), Num(LargeSize)}}

InitSearch ==
  /\ server = "running"
  /\ plat \in {[fault |-> "none", repos |-> l] : l \in Listings}
  /\ inv \in {[Idle EXCEPT !.pc = "received", !.name = "search_repositories", !.arguments = a] :
                a \in SearchArguments}
  /\ log = << >>
  /\ outcome = NoOutcome
  /\ rejected = FALSE
  /\ prev = Idle

searchRepositoriesStep(at, resp) ==
  LET a == inv.arguments
  IN  searchRepositories(at, Get(a, "project_id"), Get(a, "query"), Get(a, "page"), Get(a, "perPage"), resp)

\* searchRepositories runs up to its await
SearchCall ==
  /\ inv.pc = "received"
  /\ LET step == searchRepositoriesStep("start", NoResponse)
     IN  /\ inv' = [inv EXCEPT !.pc = "await", !.at = step.at]
         /\ log' = <<Entry(step.req)>>
  /\ UNCHANGED <<server, plat, outcome, rejected, prev>>

\* the platform answers and searchRepositories returns or throws
SearchReply ==
  /\ inv.pc = "await"
  /\ LET r == RespondListing(plat, log[1].req)
         step == searchRepositoriesStep(inv.at, r)
     IN  /\ plat' = r.plat
         /\ log' = <<Answered(log[1], r)>>
         /\ inv' = [inv EXCEPT !.pc = "done"]
         /\ outcome' = IF step.k = "return"
                       THEN [kind |-> "returned", val |-> step.val, err |-> NoError]
                       ELSE [kind |-> "thrown", val |-> Undefined, err |-> step.err]
  /\ UNCHANGED <<server, rejected, prev>>

\* the platform starts failing before it is asked
SearchFault(f) ==
  /\ inv.pc = "received"
  /\ SetFault(f)

NextSearch ==
  \/ SearchCall
  \/ SearchReply
  \/ \E f \in Faults : SearchFault(f)

SpecSearch == InitSearch /\ [][NextSearch]_vars

(***************************************************************************)
(* get_file_content invocations, one after the other, on a platform that   *)
(* other clients write to between them.  prev is the last invocation that  *)
(* completed: its arguments, the platform it ran on and its outcome.       *)
(***************************************************************************)
ReadArguments ==
  {a \in SomeArguments("get_file_content") :
     Get(a, "project_id") \in {Undefined, Str(<<"X">>)}}

DeliverRead(arguments) ==
  /\ arguments \in ReadArguments
  /\ Deliver("get_file_content", arguments)

\* the result is sent to the client
FinishRead ==
  /\ server # "exited"
  /\ inv.pc = "done"
  /\ server' = (IF outcome.kind = "thrown" THEN AfterRejection(server) ELSE server)
  /\ prev' = [pc |-> "done", arguments |-> inv.arguments, plat |-> plat, outcome |-> outcome]
  /\ inv' = Idle
  /\ log' = << >>
  /\ outcome' = NoOutcome
  /\ rejected' = (rejected \/ outcome.kind = "thrown")
  /\ UNCHANGED plat

\* between two invocations the platform starts or stops failing
FaultBetween(f) ==
  /\ inv.pc = "idle"
  /\ SetFault(f)

\* between two invocations another client pushes a commit to a branch
PushBetween(b) ==
  /\ inv.pc = "idle"
  /\ server # "exited"
  /\ plat.pushed < MaxCommits
  /\ plat.heads[b] # NoHead
  /\ plat' = [plat EXCEPT !.heads[b] = CommitName(plat.pushed + 1), !.pushed = plat.pushed + 1]
  /\ UNCHANGED <<server, inv, log, outcome, rejected, prev>>

NextRead ==
  \/ \E arguments \in ReadArguments : DeliverRead(arguments)
  \/ CallTool
  \/ HttpReply
  \/ FinishRead
  \/ \E f \in Faults : FaultBetween(f)
  \/ \E b \in BranchNames : PushBetween(b)

SpecRead == Init /\ [][NextRead]_vars

(***************************************************************************)
(* The catalog and the dispatcher of the two builds of the server: the     *)
(* TypeScript source ("src") and the compiled dist/index.js ("dist").      *)
(* A request is list_tools or call_tool; for call_tool only the selection  *)
(* of the branch is followed here.                                         *)
(***************************************************************************)
Builds == {"src", "dist"}

\* mutant: the source build also advertises search_repositories
ListTools_WithSearchRepositories(build) ==
  IF build = "src"
  THEN <<"get_projects", "get_repositories", "create_repository", "create_pull_request",
         "add_issue_comment", "get_branches", "get_commits", "get_file_content",
         "update_file_content", "search_code", "search_work_items", "search_users",
         "search_repositories", "fork_repository", "create_branch", "update_branch",
         "push_files", "create_or_update_file">>
  ELSE <<"get_projects", "get_repositories", "create_repository", "create_pull_request",
         "add_issue_comment", "get_branches", "get_commits", "get_file_content",
         "update_file_content", "search_code">>

\* the name fields of the tools array, in order
ListTools(build) ==
  IF build = "src"
  THEN <<"get_projects", "get_repositories", "create_repository", "create_pull_request",
         "add_issue_comment", "get_branches", "get_commits", "get_file_content",
         "update_file_content", "search_code", "search_work_items", "search_users",
         "fork_repository", "create_branch", "update_branch", "push_files",
         "create_or_update_file">>
  ELSE <<"get_projects", "get_repositories", "create_repository", "create_pull_request",
         "add_issue_comment", "get_branches", "get_commits", "get_file_content",
         "update_file_content", "search_code">>

\* the names the if/else-if chain compares request.params.name with, in order
DispatchChain(build) ==
  IF build = "src"
  THEN <<"get_projects", "get_repositories", "create_repository", "create_pull_request",
         "add_issue_comment", "get_branches", "get_commits", "get_file_content",
         "update_file_content", "search_code", "search_work_items", "search_users",
         "fork_repository", "create_branch", "update_branch", "push_files",
         "create_or_update_file">>
  ELSE <<"get_projects", "get_repositories", "create_repository", "create_pull_request",
         "add_issue_comment", "get_branches", "get_commits", "get_file_content",
         "update_file_content", "search_code">>

\* the tests of the chain that hold of a name
Matching(build, name) ==
  {i \in 1..Len(DispatchChain(build)) : DispatchChain(build)[i] = name}

\* the branch taken: the first test that holds, 0 for the final else
Dispatch(build, name) ==
  IF Matching(build, name) = {} THEN 0
  ELSE CHOOSE i \in Matching(build, name) : \A j \in Matching(build, name) : i <= j

CatalogArguments == {Undefined, Obj([project_id |-> Str(<<"X">>)])}

CatalogRequests ==
  {[Idle EXCEPT !.pc = "received", !.at = "list_tools"]} \cup
  {[Idle EXCEPT !.pc = "received", !.at = "call_tool", !.name = n, !.arguments = a] :
     n \in RequestNames, a \in CatalogArguments}

InitCatalog ==
  /\ server \in {[state |-> "running", build |-> b] : b \in Builds}
  /\ plat \in {p \in InitialPlatforms : p.fault = "none" /\ ~p.bareArrays}
  /\ inv \in CatalogRequests
  /\ log = << >>
  /\ outcome = NoOutcome
  /\ rejected = FALSE
  /\ prev = Idle

\* the ListToolsRequestSchema handler
ListToolsRequest ==
  /\ inv.pc = "received"
  /\ inv.at = "list_tools"
  /\ inv' = [inv EXCEPT !.pc = "done"]
  /\ outcome' = [kind |-> "tools", names |-> ListTools(server.build), err |-> NoError]
  /\ UNCHANGED <<server, plat, log, rejected, prev>>

\* the CallToolRequestSchema handler, up to the branch it takes
CallToolDispatch ==
  /\ inv.pc = "received"
  /\ inv.at = "call_tool"
  /\ LET b == Dispatch(server.build, inv.name)
     IN  /\ inv' = [inv EXCEPT !.pc = "done",
                               !.branch = IF b = 0 THEN "else" ELSE DispatchChain(server.build)[b]]
         /\ outcome' = IF b = 0
                       THEN Rejection(McpError("MethodNotFound", <<"Unknown tool: ", inv.name>>))
                       ELSE [kind |-> "dispatched", index |-> b, err |-> NoError]
  /\ UNCHANGED <<server, plat, log, rejected, prev>>

NextCatalog ==
  \/ ListToolsRequest
  \/ CallToolDispatch

SpecCatalog == InitCatalog /\ [][NextCatalog]_vars

(***************************************************************************)
(* Start-up and shutdown of the server processes.  The container           *)
(* entrypoints are shell scripts that end in exec "$@"; the Azure DevOps   *)
(* server (source and dist build) checks its environment when the module   *)
(* is loaded, installs its handlers and connects the stdio transport.      *)
(* server is the process, plat its environment, log what it has echoed.    *)
(***************************************************************************)
Kinds == {"azure-devops", "azure-devops-dist", "github", "litellm", "sonarqube", "gcloud", "figma"}

IsNode(kind) == kind \in {"azure-devops", "azure-devops-dist"}

\* mutant: the test holds of an unset variable only
TestZ_UnsetOnly(v) == v.t = "undefined"

\* [ -z "$VAR" ]: the variable is unset or empty
TestZ(v) == v.t = "undefined" \/ v.v = << >>

\* the statements of a start-up program
Require(var) == [op |-> "require", reads |-> {var}]
Warn(var)    == [op |-> "warn", reads |-> {var}]
Transport    == [op |-> "transport", reads |-> {"MCP_TRANSPORT"}]
ExecCommand  == [op |-> "exec", reads |-> {}]
ThrowUnless(names) == [op |-> "throw", reads |-> names]
Construct    == [op |-> "construct", reads |-> {}]

\* mutant: the Figma entrypoint exits when its token is missing
Script_FigmaRequires(kind) ==
  CASE kind = "github"    -> <<Require("GITHUB_PERSONAL_ACCESS_TOKEN"), ExecCommand>>
    [] kind = "litellm"   -> <<Require("LITELLM_MASTER_KEY"), ExecCommand>>
    [] kind = "sonarqube" -> <<Require("SONAR_TOKEN"), Warn("SONAR_URL"), ExecCommand>>
    [] kind = "gcloud"    -> <<Require("GOOGLE_APPLICATION_CREDENTIALS"), Require("GOOGLE_CLOUD_PROJECT"), ExecCommand>>
    [] kind = "figma"     -> <<Require("FIGMA_ACCESS_TOKEN"), Transport, ExecCommand>>
    [] OTHER              -> <<ThrowUnless({"AZURE_DEVOPS_ORG_URL", "AZURE_DEVOPS_API_TOKEN"}), Construct>>

\* the start-up program of each server, statement by statement
Script(kind) ==
  CASE kind = "github"    -> <<Require("GITHUB_PERSONAL_ACCESS_TOKEN"), ExecCommand>>
    [] kind = "litellm"   -> <<Require("LITELLM_MASTER_KEY"), ExecCommand>>
    [] kind = "sonarqube" -> <<Require("SONAR_TOKEN"), Warn("SONAR_URL"), ExecCommand>>
    [] kind = "gcloud"    -> <<Require("GOOGLE_APPLICATION_CREDENTIALS"), Require("GOOGLE_CLOUD_PROJECT"), ExecCommand>>
    [] kind = "figma"     -> <<Warn("FIGMA_ACCESS_TOKEN"), Transport, ExecCommand>>
    [] OTHER              -> <<ThrowUnless({"AZURE_DEVOPS_ORG_URL", "AZURE_DEVOPS_API_TOKEN"}), Construct>>

\* the variables a start-up program reads
ScriptVars(kind) == UNION {Script(kind)[i].reads : i \in 1..Len(Script(kind))}

EnvValues(var) ==
  IF var = "MCP_TRANSPORT"
  THEN {Undefined, Str(<<"http">>), Str(<<"stdio">>), Str(<<"HTTP">>)}
  ELSE {Undefined, Str(<< >>), Str(<<"v">>)}

Environments(kind) ==
  {e \in [ScriptVars(kind) -> UNION {EnvValues(v) : v \in ScriptVars(kind)}] :
     \A v \in ScriptVars(kind) : e[v] \in EnvValues(v)}

\* mutant: the handler exits before it closes the server
SigintHandler_ExitFirst == <<"exit", "close">>

\* process.on('SIGINT', async () => { await this.server.close(); process.exit(0); })
SigintHandler == <<"close", "exit">>

\* the exit status of the process, as the shell prints it
Running == "running"

Process(kind) ==
  [kind |-> kind, phase |-> "startup", at |-> 1, handlers |-> FALSE,
   transport |-> "none", h |-> 0, status |-> Running]

InitStartup ==
  /\ server \in {Process(k) : k \in Kinds}
  /\ plat \in Environments(server.kind)
  /\ inv = Idle
  /\ log = << >>
  /\ outcome = NoOutcome
  /\ rejected = FALSE
  /\ prev = Idle

\* the statement the start-up program is at
Statement == Script(server.kind)[server.at]

AtStatement(op) ==
  /\ server.phase = "startup"
  /\ server.at <= Len(Script(server.kind))
  /\ Statement.op = op

Missing(names) == {v \in names : IF IsNode(server.kind) THEN Not(plat[v]) ELSE TestZ(plat[v])}

\* if [ -z "$VAR" ]; then echo "ERRO: ..."; exit 1; fi
RequireStep ==
  /\ AtStatement("require")
  /\ IF Missing(Statement.reads) # {}
     THEN /\ server' = [server EXCEPT !.phase = "exited", !.status = "1"]
          /\ log' = Append(log, "ERRO")
     ELSE /\ server' = [server EXCEPT !.at = @ + 1]
          /\ log' = log
  /\ UNCHANGED <<plat, inv, outcome, rejected, prev>>

\* if [ -z "$VAR" ]; then echo "AVISO: ..."; fi
WarnStep ==
  /\ AtStatement("warn")
  /\ server' = [server EXCEPT !.at = @ + 1]
  /\ log' = IF Missing(Statement.reads) # {} THEN Append(log, "AVISO") ELSE log
  /\ UNCHANGED <<plat, inv, outcome, rejected, prev>>

\* if [ "$MCP_TRANSPORT" = "http" ]; then echo "... modo HTTP ..."; else echo "... modo stdio"; fi
TransportStep ==
  /\ AtStatement("transport")
  /\ server' = [server EXCEPT !.at = @ + 1]
  /\ log' = Append(log, IF plat["MCP_TRANSPORT"] = Str(<<"http">>) THEN "http" ELSE "stdio")
  /\ UNCHANGED <<plat, inv, outcome, rejected, prev>>

\* exec "$@": the server command replaces the shell, with the same environment
ExecStep ==
  /\ AtStatement("exec")
  /\ server' = [server EXCEPT !.phase = "command"]
  /\ UNCHANGED <<plat, inv, log, outcome, rejected, prev>>

\* if (!ORG_URL || !API_TOKEN) throw new Error(...): the module fails to load
ThrowStep ==
  /\ AtStatement("throw")
  /\ IF Missing(Statement.reads) # {}
     THEN server' = [server EXCEPT !.phase = "exited", !.status = "1"]
     ELSE server' = [server EXCEPT !.at = @ + 1]
  /\ UNCHANGED <<plat, inv, log, outcome, rejected, prev>>

\* run(): new AzureDevOpsServer() installs the handlers, server.run() connects stdio
ConstructStep ==
  /\ AtStatement("construct")
  /\ server' = [server EXCEPT !.phase = "serving", !.handlers = TRUE, !.transport = "open"]
  /\ UNCHANGED <<plat, inv, log, outcome, rejected, prev>>

\* the interrupt signal arrives: the handler starts
Interrupt ==
  /\ server.handlers
  /\ server.phase = "serving"
  /\ server.h = 0
  /\ server' = [server EXCEPT !.h = 1]
  /\ UNCHANGED <<plat, inv, log, outcome, rejected, prev>>

\* the handler runs its next statement
HandlerStep ==
  /\ server.status = Running
  /\ server.h \in 1..Len(SigintHandler)
  /\ server.phase # "closing"
  /\ IF SigintHandler[server.h] = "close"
     THEN server' = [server EXCEPT !.phase = "closing",
                                   !.transport = IF @ = "open" THEN "closing" ELSE @]
     ELSE server' = [server EXCEPT !.phase = "exited", !.status = "0"]
  /\ UNCHANGED <<plat, inv, log, outcome, rejected, prev>>

\* server.close() completes and the handler resumes after its await
Closed ==
  /\ server.status = Running
  /\ server.phase = "closing"
  /\ server' = [server EXCEPT !.phase = "closed", !.transport = "closed", !.h = @ + 1]
  /\ UNCHANGED <<plat, inv, log, outcome, rejected, prev>>

StartupStep ==
  \/ RequireStep
  \/ WarnStep
  \/ TransportStep
  \/ ExecStep
  \/ ThrowStep
  \/ ConstructStep

NextStartup ==
  \/ StartupStep
  \/ Interrupt
  \/ HandlerStep
  \/ Closed

SpecStartup == InitStartup /\ [][NextStartup]_vars

\* a started program runs on; a started handler and a started close complete
FairSpecStartup ==
  SpecStartup /\ WF_vars(StartupStep) /\ WF_vars(HandlerStep) /\ WF_vars(Closed)

(***************************************************************************)
(* Successive invocations: the server between two tool calls               *)
(***************************************************************************)
HistoryNames == {"get_projects", "push_files", "create_branch", "get_project"}

DeliverNext(name, arguments) ==
  /\ name \in HistoryNames
  /\ Deliver(name, arguments)

\* the result (or the error) is sent to the client; (history) the invocation
\* that just ended is remembered for comparison with the next one
FinishNext ==
  /\ server # "exited"
  /\ inv.pc = "done"
  /\ server' = (IF outcome.kind = "thrown" THEN AfterRejection(server) ELSE server)
  /\ prev' = [pc |-> "done", name |-> inv.name, arguments |-> inv.arguments,
              log |-> log, outcome |-> outcome]
  /\ inv' = Idle
  /\ log' = << >>
  /\ outcome' = NoOutcome
  /\ rejected' = (rejected \/ outcome.kind = "thrown")
  /\ UNCHANGED plat

NextHistory ==
  \/ \E name \in HistoryNames : \E arguments \in SomeArguments(name) : DeliverNext(name, arguments)
  \/ CallTool
  \/ HttpReply
  \/ FinishNext
  \/ \E f \in Faults : SetFault(f)

SpecHistory == Init /\ [][NextHistory]_vars

(***************************************************************************)
(* Two invocations in flight: the handler of one request is suspended at   *)
(* an await while the handler of another request runs                      *)
(***************************************************************************)
WriteTools == {"update_file_content", "create_or_update_file", "push_files"}

\* the handler is suspended at the await of its push request
AtPush(i, l) == i.pc = "await" /\ l[Len(l)].req.ep = "pushes"

\* (history) the invocation that is not running now; raced: at some moment
\* both invocations had read their commit id and neither had written
Suspended(i, l, o, raced) == [inv |-> i, log |-> l, outcome |-> o, raced |-> raced]

\* both branches exist; dev was created from main
InitRace ==
  /\ server = "running"
  /\ plat \in {[fault |-> "none", bareArrays |-> b, pushed |-> 0,
                heads |-> (<<"main">> :> InitialCommit) @@ (<<"dev">> :> InitialCommit)] :
                 b \in BOOLEAN}
  /\ inv = Idle
  /\ log = << >>
  /\ outcome = NoOutcome
  /\ rejected = FALSE
  /\ prev = Suspended(Idle, << >>, NoOutcome, FALSE)

DeliverWrite(name, arguments) ==
  /\ name \in WriteTools
  /\ Deliver(name, arguments)

\* the event loop leaves the invocation it was running (at its await, or
\* ended) and runs the other one
Switch ==
  /\ server = "running"
  /\ inv.pc # "idle"
  /\ inv' = prev.inv
  /\ log' = prev.log
  /\ outcome' = prev.outcome
  /\ prev' = Suspended(inv, log, outcome,
                       prev.raced \/ (AtPush(inv, log) /\ AtPush(prev.inv, prev.log)))
  /\ UNCHANGED <<server, plat, rejected>>

NextRace ==
  \/ \E name \in WriteTools : \E arguments \in CompleteArguments(name) : DeliverWrite(name, arguments)
  \/ CallTool
  \/ HttpReply
  \/ Switch

SpecRace == InitRace /\ [][NextRace]_vars

(***************************************************************************)
(* Branch names: the operations of branches.ts on a branch given by its    *)
(* short name or by its full ref name                                      *)
(***************************************************************************)
BranchSpellings == {Str(<<b>>) : b \in {"main", "dev"}} \cup {Str(<<RefsHeads, b>>) : b \in {"main", "dev"}}

RefTools == {"create_branch", "update_branch"}

RefArguments(name) ==
  {Obj([a.v EXCEPT !.branch = b]) : a \in CompleteArguments(name), b \in BranchSpellings}

\* a create_branch or update_branch request was received, or getBranchRef
\* was called
InitRefs ==
  /\ server = "running"
  /\ plat \in {p \in InitialPlatforms : p.fault = "none"}
  /\ \/ \E name \in RefTools : \E arguments \in RefArguments(name) :
          inv = [Idle EXCEPT !.pc = "received", !.name = name, !.arguments = arguments,
                             !.before = plat.heads]
     \/ \E b \in BranchSpellings :
          inv = [Idle EXCEPT !.pc = "called", !.name = "getBranchRef",
                             !.arguments = Obj([project_id |-> Str(<<"X">>),
                                                repository_id |-> Str(<<"X">>), branch |-> b]),
                             !.before = plat.heads]
  /\ log = << >>
  /\ outcome = NoOutcome
  /\ rejected = FALSE
  /\ prev = Idle

getBranchRefStep(at, resp) ==
  getBranchRef(at, Arg(inv.arguments, "project_id"), Arg(inv.arguments, "repository_id"),
               Arg(inv.arguments, "branch"), resp)

\* getBranchRef runs up to its await
BranchRefCall ==
  /\ inv.pc = "called"
  /\ \E step \in {getBranchRefStep("start", NoResponse)} :
       /\ inv' = [inv EXCEPT !.pc = "awaitRef", !.at = step.at]
       /\ log' = <<Entry(step.req)>>
  /\ UNCHANGED <<server, plat, outcome, rejected, prev>>

\* the platform answers and getBranchRef returns or throws
BranchRefReply ==
  /\ inv.pc = "awaitRef"
  /\ \E r \in {Respond(plat, log[1].req)} :
       \E step \in {getBranchRefStep(inv.at, r)} :
         /\ plat' = r.plat
         /\ log' = <<Answered(log[1], r)>>
         /\ inv' = [inv EXCEPT !.pc = "done"]
         /\ outcome' = IF step.k = "return"
                       THEN [kind |-> "returned", val |-> step.val, err |-> NoError]
                       ELSE [kind |-> "thrown", val |-> Undefined, err |-> step.err]
  /\ UNCHANGED <<server, rejected, prev>>

NextRefs ==
  \/ CallTool
  \/ HttpReply
  \/ BranchRefCall
  \/ BranchRefReply
  \/ \E f \in Faults : SetFault(f)

SpecRefs == InitRefs /\ [][NextRefs]_vars

(***************************************************************************)
(* Properties                                                              *)
(***************************************************************************)
Served == inv.pc \in {"await", "done"}

IsProtocolError(o, code) == o.kind = "thrown" /\ o.err.cls = "McpError" /\ o.err.code = code

\* C1: a call_tool request whose name is not one of the handled names, with
\* any arguments (missing, empty or not), ends as a MethodNotFound protocol
\* error and issues no outbound request; a name that differs from a handled
\* name in case, by a prefix or by a suffix is not dispatched.
C1_UnknownNameIsMethodNotFound ==
  (Served /\ inv.name \notin HandledNames) =>
     /\ inv.pc = "done"
     /\ IsProtocolError(outcome, "MethodNotFound")
     /\ outcome.err.message = <<"Unknown tool: ", inv.name>>
     /\ log = << >>

C1_Witness ==
  /\ inv.pc = "done"
  /\ inv.name = "GET_PROJECTS"
  /\ inv.arguments = Obj([project_id |-> Str(<<"X">>)])
  /\ IsProtocolError(outcome, "MethodNotFound")

\* C2: when a tool that advertises required arguments is invoked without at
\* least one of them, the outcome is an InvalidParams error and the
\* invocation has issued no outbound request.
C2_MissingRequiredIsInvalidParams ==
  (/\ Served
   /\ inv.name \in HandledNames
   /\ \E k \in SchemaRequired(inv.name) : Arg(inv.arguments, k).t = "undefined") =>
     /\ inv.pc = "done"
     /\ IsProtocolError(outcome, "InvalidParams")
     /\ log = << >>

C2_Witness ==
  /\ inv.pc = "done"
  /\ inv.name = "update_branch"
  /\ inv.arguments.t = "object"
  /\ DOMAIN inv.arguments.v = {"project_id", "repository_id", "branch", "new_commit_id"}
  /\ \A k \in DOMAIN inv.arguments.v : ~Not(inv.arguments.v[k])
  /\ IsProtocolError(outcome, "InvalidParams")

\* every required argument is present with a value of the declared type
WellTyped(name, arguments) ==
  \A k \in SchemaRequired(name) : Arg(arguments, k).t = SchemaType(k)

\* C3 (as claimed): an invocation of a catalog tool that supplies all required
\* arguments with values of the declared type (any string, the empty string
\* included) never fails validation: it is never answered InvalidParams and
\* its operation handler issues its first request.
C3_CompleteArgumentsPassValidation ==
  (/\ Served
   /\ inv.name \in HandledNames
   /\ WellTyped(inv.name, inv.arguments)) =>
     /\ ~IsProtocolError(outcome, "InvalidParams")
     /\ Len(log) >= 1

\* the last outbound request of the invocation failed
FailedHttp == Len(log) >= 1 /\ log[Len(log)].status = "failed"

\* error.response?.data?.message ?? error.message
Detail(error) == IF error.hasBody THEN error.bodyMessage ELSE error.message

\* C4 (as claimed): for every tool, when an outbound request of the invocation
\* fails, the invocation ends with a returned result flagged isError whose
\* text contains the message of the platform's response body (the transport
\* error's own message when the response has none); it never ends thrown.
C4_HttpFailureSurfacesPlatformMessage ==
  (inv.pc = "done" /\ FailedHttp) =>
     /\ outcome.kind = "result"
     /\ outcome.isError
     /\ Includes(outcome.text, Detail(log[Len(log)].err))

\* C5 (as claimed): every error result returned for a translated platform
\* failure reads "Azure DevOps API error: <detail>" with the prefix exactly
\* once, <detail> being the platform's message (or the transport message) for
\* an HTTP failure and the error's own message for an AzureDevOpsError raised
\* locally.  Stated for the tools served through an operation handler.
C5_PrefixAppliedOnce ==
  (inv.pc = "done" /\ ~IsDirect(inv.name) /\ outcome.kind = "result" /\ outcome.isError) =>
     /\ StartsWith(outcome.text, ApiErrorPrefix)
     /\ ~Includes(Tail(outcome.text), ApiErrorPrefix)
     /\ FailedHttp => Tail(outcome.text) = Detail(log[Len(log)].err)

C7_RejectionLeavesServerRunning ==
  [][ /\ (inv.pc = "done" /\ outcome.kind = "thrown" /\ inv' # inv) =>
           (server' = server /\ inv' = Idle /\ log' = << >> /\ outcome' = NoOutcome /\ plat' = plat)
      /\ (server' # server) =>
           /\ inv' = inv /\ log' = log /\ outcome' = outcome /\ plat' = plat
           /\ \/ server = "running" /\ server' = "closing"
              \/ server = "closing" /\ server' = "exited" ]_vars

C7_Witness ==
  /\ rejected
  /\ server = "running"
  /\ inv.pc = "done"
  /\ outcome.kind = "result"
  /\ ~outcome.isError

\* the invocation is create_branch, validated, without from_branch
CreateBranchFromDefault ==
  /\ Served
  /\ inv.name = "create_branch"
  /\ ~FailsValidation(inv.name, inv.arguments)
  /\ Not(Arg(inv.arguments, "from_branch"))

\* C8: create_branch without from_branch issues, in this order, (a) the read
\* of the repository (its default branch), (b) the read of that branch's
\* latest commit, (c) the POST of refs/heads/<branch> with newObjectId the
\* commit id read in (b) and oldObjectId the forty-zero sentinel; (b) is
\* issued only after (a) succeeded and (c) only after (b) returned a commit;
\* unless (c) was accepted the platform's branches are as before.
C8_CreateBranchSequence ==
  CreateBranchFromDefault =>
    LET a == inv.arguments
        marker == "/commits?searchCriteria.itemVersion.version="
    IN  /\ Len(log) \in 1..3
        /\ log[1].req = getRepositoryReq(Arg(a, "project_id"), Arg(a, "repository_id"))
        /\ log[1].req.method = "GET"
        /\ Len(log) >= 2 =>
             /\ log[1].status = "ok"
             /\ log[2].req.method = "GET"
             /\ log[2].req.ep = "commits"
             /\ <<RefsHeads>> \o Between(log[2].req.url, marker) = Get(log[1].data, "defaultBranch").v
        /\ Len(log) = 3 =>
             /\ log[2].status = "ok"
             /\ log[3].req.method = "POST"
             /\ log[3].req.ep = "refs.post"
             /\ log[3].req.body.name = Str(<<RefsHeads>> \o Arg(a, "branch").v)
             /\ log[3].req.body.newObjectId = Get(At0(Get(log[2].data, "value")), "commitId")
             /\ log[3].req.body.newObjectId.v \in KnownCommits(plat)
             /\ log[3].req.body.oldObjectId = Str(ZeroObjectId)
        /\ (inv.pc = "done" /\ ~(Len(log) = 3 /\ log[3].status = "ok")) =>
             (plat.heads = inv.before /\ (outcome.kind = "thrown" \/ outcome.isError))

C8_Witness ==
  /\ CreateBranchFromDefault
  /\ inv.pc = "done"
  /\ Len(log) = 3
  /\ outcome.kind = "result" /\ ~outcome.isError
  /\ inv.before[<<"dev">>] = NoHead
  /\ plat.heads[<<"dev">>] = plat.heads[<<"main">>]

\* searchRepositories returned
SearchDone == inv.pc = "done" /\ inv.name = "search_repositories" /\ outcome.kind = "returned"

C10_ReadOnlyAndIdempotent ==
  /\ [][inv.pc # "idle" => plat' = plat]_vars
  /\ []((/\ inv.pc = "done"
         /\ prev.pc = "done"
         /\ prev.arguments = inv.arguments
         /\ prev.plat = plat) => outcome = prev.outcome)

C10_Witness ==
  /\ inv.pc = "done"
  /\ prev.pc = "done"
  /\ prev.arguments = inv.arguments
  /\ prev.plat = plat
  /\ plat.fault = "none"
  /\ outcome = prev.outcome
  /\ outcome.kind = "result"
  /\ ~outcome.isError
  /\ Len(log) = 1
  /\ log[1].req.method = "GET"

\* the elements of a sequence
Range(q) == {q[i] : i \in 1..Len(q)}

\* C11: in both builds the advertised tool names are pairwise distinct; a
\* call_tool request is dispatched to a handler exactly when its name is
\* advertised, and then exactly one test of the chain holds of the name: an
\* advertised name never ends in MethodNotFound and a name that is not
\* advertised always does.  The source build's chain agrees with the branch
\* selection of the served invocations.
C11_CatalogEqualsDispatcher ==
  /\ (inv.pc = "done" /\ outcome.kind = "tools") =>
        /\ \A i, j \in 1..Len(outcome.names) : outcome.names[i] = outcome.names[j] => i = j
        /\ \A n \in Range(outcome.names) : Dispatch(server.build, n) # 0
        /\ Range(outcome.names) = Range(DispatchChain(server.build))
  /\ (inv.pc = "done" /\ inv.at = "call_tool") =>
        /\ inv.name \in Range(ListTools(server.build)) <=> outcome.kind = "dispatched"
        /\ inv.name \notin Range(ListTools(server.build)) <=> IsProtocolError(outcome, "MethodNotFound")
        /\ outcome.kind = "dispatched" =>
             /\ Cardinality(Matching(server.build, inv.name)) = 1
             /\ inv.branch = inv.name
        /\ server.build = "src" => inv.branch = Branch(inv.name)

C11_Witness ==
  /\ inv.pc = "done"
  /\ server.build = "dist"
  /\ inv.name = "search_code"
  /\ outcome.kind = "dispatched"
  /\ outcome.index = 10

\* the invocation is one of the two file-writing tools, validated
FileWrite ==
  /\ Served
  /\ inv.name \in {"update_file_content", "create_or_update_file"}
  /\ ~FailsValidation(inv.name, inv.arguments)

\* C12 (as claimed): update_file_content / create_or_update_file first reads
\* the commits of the branch given in the arguments, then issues the write,
\* whose oldObjectId is the commit id that this read returned; the write is
\* not issued when the read failed or returned no commit id.
C12_ReadBranchThenWrite ==
  FileWrite =>
    LET a == inv.arguments
    IN  /\ Len(log) \in 1..2
        /\ log[1].req = getCommitsReq(Arg(a, "project_id"), Arg(a, "repository_id"), Arg(a, "branch"))
        /\ Len(log) = 2 =>
             /\ log[1].status = "ok"
             /\ Get(At0(log[1].data), "commitId").t = "string"
             /\ log[2].req.ep = "pushes"
             /\ log[2].req.body.name = Str(<<RefsHeads>> \o Arg(a, "branch").v)
             /\ log[2].req.body.oldObjectId = Get(At0(log[1].data), "commitId")

\* C13: handlers never retry: the outbound requests of one invocation are
\* pairwise different, only the last of them can have failed, and the step in
\* which a request fails ends the invocation with an error result.
C13_NoRetry ==
  Served =>
    /\ \A i, j \in 1..Len(log) : log[i].req = log[j].req => i = j
    /\ \A i \in 1..Len(log) : i < Len(log) => log[i].status = "ok"
    /\ FailedHttp =>
         /\ inv.pc = "done"
         /\ outcome.kind = "result"
         /\ outcome.isError

C13_Witness ==
  /\ inv.pc = "done"
  /\ inv.name = "fork_repository"
  /\ Len(log) = 2
  /\ log[1].status = "ok"
  /\ log[2].status = "failed"
  /\ outcome.kind = "result"
  /\ outcome.isError

\* every required key of the tool is present in the arguments map
AllPresent(name, arguments) ==
  \A k \in SchemaRequired(name) : Arg(arguments, k).t # "undefined"

\* C14 (as claimed): validation is presence-only: an invocation of a catalog
\* tool with every required key present, whatever the values and their types,
\* passes validation (its first request is issued), and when it does not end
\* in a success result it ends in an error result caused by a failed request.
C14_PresenceOnlyValidation ==
  (Served /\ inv.name \in HandledNames /\ AllPresent(inv.name, inv.arguments)) =>
     /\ ~IsProtocolError(outcome, "InvalidParams")
     /\ Len(log) >= 1
     /\ (inv.pc = "done" /\ ~(outcome.kind = "result" /\ ~outcome.isError)) =>
          (FailedHttp /\ outcome.kind = "result" /\ outcome.isError)

\* the parameter names that occur in a message
Mentioned(name, message) ==
  {k \in SchemaRequired(name) \cup Unchecked(name) : \E i \in 1..Len(message) : message[i] = k}

\* C15 (as claimed): the message of the InvalidParams error names exactly the
\* required parameters that are absent from the arguments of the invocation.
\* Stated for the invocations whose present required values are all truthy.
C15_MessageListsMissingFields ==
  (/\ inv.pc = "done"
   /\ IsProtocolError(outcome, "InvalidParams")
   /\ \A k \in SchemaRequired(inv.name) :
        Arg(inv.arguments, k).t = "undefined" \/ ~Not(Arg(inv.arguments, k))) =>
     Mentioned(inv.name, outcome.err.message) =
       {k \in SchemaRequired(inv.name) : Arg(inv.arguments, k).t = "undefined"}

\* C16 (as claimed): for every tool, the text of a success result is the JSON
\* text of the body of the platform's response to the (last) request of the
\* invocation, with nothing unwrapped, dropped, added or reshaped.
C16_PayloadIsResponseBody ==
  (inv.pc = "done" /\ outcome.kind = "result" /\ ~outcome.isError) =>
     /\ Len(log) >= 1
     /\ outcome.text = Stringify(log[Len(log)].data)

\* the credentials each server's start-up check declares mandatory
MandatoryCredentials(kind) ==
  CASE IsNode(kind)       -> {"AZURE_DEVOPS_ORG_URL", "AZURE_DEVOPS_API_TOKEN"}
    [] kind = "github"    -> {"GITHUB_PERSONAL_ACCESS_TOKEN"}
    [] kind = "litellm"   -> {"LITELLM_MASTER_KEY"}
    [] kind = "sonarqube" -> {"SONAR_TOKEN"}
    [] kind = "gcloud"    -> {"GOOGLE_APPLICATION_CREDENTIALS", "GOOGLE_CLOUD_PROJECT"}
    [] OTHER              -> {}

\* a variable is unset or empty
UnsetOrEmpty(v) == v.t = "undefined" \/ v = Str(<< >>)

CredentialMissing ==
  \E v \in MandatoryCredentials(server.kind) : UnsetOrEmpty(plat[v])

\* the server command runs or the server's handlers are installed
Started == server.phase \in {"command", "serving", "closing", "closed"} \/ server.handlers

\* C17: when a mandatory credential of a server is unset or empty, the server
\* command is never executed and no request handler is installed, the process
\* never exits with status zero, and it does end, with exit status 1.
C17_MissingCredentialIsFatal ==
  /\ [](CredentialMissing => (~Started /\ server.status \in {Running, "1"}))
  /\ (CredentialMissing ~> (server.phase = "exited" /\ server.status = "1"))

C17_Witness ==
  /\ server.kind = "gcloud"
  /\ plat["GOOGLE_APPLICATION_CREDENTIALS"] = Str(<<"v">>)
  /\ plat["GOOGLE_CLOUD_PROJECT"] = Str(<< >>)
  /\ server.phase = "exited"
  /\ server.status = "1"
  /\ log = <<"ERRO">>

C19_CloseBeforeExit ==
  /\ [][(server.handlers /\ server.status = Running /\ server'.status # Running) =>
          /\ server.h >= 1
          /\ server.transport = "closed"
          /\ server.phase = "closed"
          /\ server'.status = "0"
          /\ server'.transport = "closed"]_vars
  /\ []((server.handlers /\ server.status # Running) => server.transport = "closed")
  /\ ((server.handlers /\ server.h >= 1) ~> (server.phase = "exited" /\ server.status = "0"))

C19_Witness ==
  /\ server.kind = "azure-devops-dist"
  /\ server.handlers
  /\ server.phase = "exited"
  /\ server.status = "0"
  /\ server.transport = "closed"
  /\ server.h = 2

\* C20: every invocation completes, the platform answering each of its
\* requests, and produces exactly one outcome: none while the handler runs,
\* one returned result or one rejection when it is done, and that outcome is
\* not replaced by another.
C20_ExactlyOneOutcome ==
  /\ [](inv.pc \in {"received", "await"} => outcome = NoOutcome)
  /\ [](inv.pc = "done" => outcome.kind \in {"result", "thrown"})
  /\ [][outcome # NoOutcome => (outcome' = outcome \/ (outcome' = NoOutcome /\ inv' = Idle))]_vars
  /\ (inv.pc = "received" ~> inv.pc = "done")

C20_Witness ==
  /\ inv.pc = "done"
  /\ inv.name = "fork_repository"
  /\ Len(log) = 3
  /\ \A i \in 1..3 : log[i].status = "ok"
  /\ outcome.kind = "result"
  /\ ~outcome.isError

\* the answers to the first j requests of this invocation are the answers
\* the previous invocation got to its first j requests
SameResponses(j) ==
  /\ j <= Len(log)
  /\ j <= Len(prev.log)
  /\ \A k \in 1..j :
       /\ log[k].status # "pending"
       /\ log[k].status = prev.log[k].status
       /\ log[k].data = prev.log[k].data
       /\ log[k].err = prev.log[k].err

SameCall == prev.pc = "done" /\ prev.name = inv.name /\ prev.arguments = inv.arguments

\* C21: no server-side state carries across invocations: between two
\* invocations the server holds what it held at startup, whatever the earlier
\* invocations were (successful, failed or fatal), and the requests and the
\* outcome of an invocation depend only on its name, its arguments and the
\* platform's responses to it: with the same name, arguments and responses
\* as the previous invocation it issues the same requests and has the same
\* outcome.
C21_NoStateAcrossInvocations ==
  /\ server = "running"
  /\ inv.pc = "idle" => inv = Idle /\ log = << >> /\ outcome = NoOutcome
  /\ Served /\ SameCall =>
       /\ \A i \in 1..Len(prev.log) :
            SameResponses(i - 1) => Len(log) >= i /\ log[i].req = prev.log[i].req
       /\ SameResponses(Len(prev.log)) => Len(log) = Len(prev.log)
       /\ inv.pc = "done" /\ SameResponses(Len(prev.log)) => outcome = prev.outcome

\* the same push_files call as the previous one, which ended in a rejected
\* promise, has read the branch again and got the same answer
C21_Witness ==
  /\ inv.pc = "done"
  /\ SameCall
  /\ inv.name = "push_files"
  /\ rejected
  /\ Len(log) >= 1
  /\ SameResponses(Len(prev.log))
  /\ outcome = prev.outcome

MultiCallTools ==
  {"create_branch", "update_file_content", "create_or_update_file", "push_files",
   "fork_repository", "search_work_items"}

\* a request that creates or changes something on the platform
Mutating(req) == req.ep \in {"refs.post", "pushes", "repos.create", "import"}

Failed(o) == o.kind = "thrown" \/ (o.kind = "result" /\ o.isError)

\* C22: no partial success: whenever an invocation of a multi-call handler
\* (create_branch, update_file_content, create_or_update_file, push_files,
\* fork_repository, search_work_items) ends in an error, no mutating request
\* of that invocation has been accepted by the platform.
C22_NoPartialSuccess ==
  inv.pc = "done" /\ inv.name \in MultiCallTools /\ Failed(outcome) =>
    \A i \in 1..Len(log) : ~(Mutating(log[i].req) /\ log[i].status = "ok")

\* C23: every tool invocation issues at most two outbound HTTP requests; no
\* tool (create_branch without from_branch, fork_repository and
\* search_work_items included) issues a third request.
C23_AtMostTwoRequests == Served => Len(log) <= 2

\* the push request of a log, when the invocation issued one
Wrote(l) == Len(l) = 2 /\ l[2].req.ep = "pushes"

Accepted(l) == Wrote(l) /\ l[2].status = "ok"

\* both invocations are write invocations with the same branch argument,
\* both read before either wrote, and both have ended
RaceOnBranch ==
  /\ inv.pc = "done" /\ prev.inv.pc = "done"
  /\ Arg(inv.arguments, "branch") = Arg(prev.inv.arguments, "branch")
  /\ prev.raced

ErrorResultNoRetry(l, o) == o.kind = "result" /\ o.isError /\ Len(l) = 2

\* C24: when two write invocations on the same branch interleave so that
\* both read the branch's latest commit id before either writes, both writes
\* carry that same id as oldObjectId; at most one of the two is accepted by
\* a platform that accepts a push only on the current head, and the other
\* ends as an error result without retry.
C24_NoLostUpdate ==
  RaceOnBranch =>
    /\ log[2].req.body.oldObjectId = prev.log[2].req.body.oldObjectId
    /\ log[2].req.body.name = prev.log[2].req.body.name
    /\ ~(Accepted(log) /\ Accepted(prev.log))
    /\ ~Accepted(log) => ErrorResultNoRetry(log, outcome)
    /\ ~Accepted(prev.log) => ErrorResultNoRetry(prev.log, prev.outcome)

CommitIdTools == {"create_branch", "push_files", "update_file_content", "create_or_update_file"}

\* the commits of a listing, whichever shape the body has
Listed(data) ==
  IF data.t = "array" THEN data.v
  ELSE IF Get(data, "value").t = "array" THEN Get(data, "value").v
  ELSE << >>

\* the commit id a write request carries
CarriedId(req) == IF req.ep = "refs.post" THEN req.body.newObjectId ELSE req.body.oldObjectId

\* C25: no write request is ever issued with a missing commit id: in
\* create_branch, push_files, update_file_content and create_or_update_file
\* the ref creation or the push is sent only after a read returned at least
\* one commit, and carries a commit id that read returned; when the listing
\* returns no commit the invocation ends without any write, as an error
\* result.
C25_WriteCarriesListedCommit ==
  Served /\ inv.name \in CommitIdTools =>
    /\ \A i \in 1..Len(log) :
         log[i].req.ep \in {"refs.post", "pushes"} =>
           /\ i > 1
           /\ log[i - 1].req.ep = "commits"
           /\ log[i - 1].status = "ok"
           /\ \E c \in Range(Listed(log[i - 1].data)) : Get(c, "commitId") = CarriedId(log[i].req)
    /\ \A j \in 1..Len(log) :
         /\ inv.pc = "done"
         /\ log[j].req.ep = "commits" /\ log[j].status = "ok"
         /\ Listed(log[j].data) = << >>
         => /\ Len(log) = j
            /\ outcome.kind = "result" /\ outcome.isError

\* C26: for every tool, the set of argument names the dispatcher checks
\* equals the set of required parameters the tool's input schema advertises
\* (the literal required list, or the non-optional fields of the zod
\* schema): the branch rejects the arguments exactly when one of the
\* advertised required parameters fails the test.
C26_CheckedEqualsAdvertised ==
  Served /\ inv.branch # "else" =>
    /\ Checked(inv.branch) = SchemaRequired(inv.branch)
    /\ IsProtocolError(outcome, "InvalidParams")
         <=> \E k \in SchemaRequired(inv.branch) : Not(Arg(inv.arguments, k))

\* push_files with everything but files (advertised by the zod schema) is
\* rejected
C26_Witness ==
  /\ inv.pc = "done"
  /\ inv.branch = "push_files"
  /\ inv.arguments.t = "object"
  /\ DOMAIN inv.arguments.v = SchemaRequired("push_files") \ {"files"}
  /\ \A k \in DOMAIN inv.arguments.v : ~Not(inv.arguments.v[k])
  /\ IsProtocolError(outcome, "InvalidParams")
  /\ log = << >>

\* the request the running branch issues first on other arguments
FirstRequest(arguments) == Handler(inv.branch, "start", arguments, NoLoc, NoResponse).req

\* C27: the optional arguments of search_code take effect: top bounds the
\* number of results and file_path restricts the search, so that two
\* search_code invocations that differ only in top or only in file_path
\* issue different outbound requests.
C27_SearchCodeOptionsTakeEffect ==
  Served /\ inv.branch = "search_code" /\ Len(log) >= 1 =>
    \A k \in {"top", "file_path"} \cap DOMAIN inv.arguments.v :
      ~Not(inv.arguments.v[k]) => log[1].req # FirstRequest(Obj(Drop(inv.arguments.v, k)))

\* C28: searchRepositories applies the documented defaults and limit: page
\* is 1 and perPage is 30 when they are omitted, and for every perPage
\* supplied the number of items returned never exceeds 100.
C28_DefaultsAndCap ==
  SearchDone =>
    LET a == inv.arguments.v
        r == outcome.val
    IN  /\ a.page.t = "undefined" => r.page = 1
        /\ a.perPage.t = "undefined" => r.perPage = 30 /\ Len(r.items) <= 30
        /\ Len(r.items) <= 100

\* what searchRepositories returns for page p, the other arguments and the
\* listing being those of the invocation that returned
PageOf(p) ==
  searchRepositories("request", inv.arguments.v.project_id, inv.arguments.v.query, Num(p),
                     inv.arguments.v.perPage,
                     [ok |-> TRUE, data |-> log[1].data, err |-> NoError]).val

\* the matching repositories of the listing, in listing order
Filtered ==
  LET q == toLowerCase(inv.arguments.v.query.v)
      hit(repo) == \/ Includes(toLowerCase(Get(repo, "name").v), q)
                   \/ /\ Get(repo, "description").t = "string"
                      /\ Includes(toLowerCase(Get(repo, "description").v), q)
  IN  SelectSeq(Get(log[1].data, "value").v, hit)

\* C29: for every query and every perPage >= 1, over an unchanged listing
\* the pages partition the filtered list: the items of pages 1..totalPages,
\* one after the other, are the filtered list in listing order; every page
\* in 1..totalPages is non-empty and every later page is empty; total_count
\* and totalPages are the same on every page.
C29_PagesPartitionFilteredList ==
  SearchDone =>
    LET r  == outcome.val
        pp == r.perPage
        n  == Len(Filtered)
    IN  /\ r = PageOf(r.page)
        /\ \A i \in 1..n :
             /\ ((i - 1) \div pp) + 1 <= r.totalPages
             /\ ((i - 1) % pp) + 1 <= Len(PageOf(((i - 1) \div pp) + 1).items)
             /\ PageOf(((i - 1) \div pp) + 1).items[((i - 1) % pp) + 1] = Filtered[i]
        /\ \A p \in 1..r.totalPages :
             /\ PageOf(p).items # << >>
             /\ Len(PageOf(p).items) = (IF p * pp <= n THEN pp ELSE n - (p - 1) * pp)
        /\ \A p \in (r.totalPages + 1)..(r.totalPages + 2) : PageOf(p).items = << >>
        /\ \A p \in 1..(r.totalPages + 2) :
             PageOf(p).total_count = r.total_count /\ PageOf(p).totalPages = r.totalPages

\* 25 matching repositories among 37 by pages of 10: the third page is the
\* last one and holds the last 5
C29_Witness ==
  /\ SearchDone
  /\ Len(Filtered) = 25
  /\ inv.arguments.v.perPage = Num(10)
  /\ outcome.val.page = 3
  /\ outcome.val.totalPages = 3
  /\ Len(outcome.val.items) = 5
  /\ outcome.val.items[5] = Filtered[25]

\* the full ref name of a branch given by its short name or its ref name
CanonicalRef(b) == <<RefsHeads>> \o (IF StartsWith(b, <<RefsHeads>>) THEN Tail(b) ELSE b)

\* C30: branch names are normalized consistently and idempotently: given "x"
\* or "refs/heads/x" as branch, create_branch, update_branch and getBranchRef
\* address the same ref "refs/heads/x", the prefix being there exactly once.
C30_BranchNameNormalized ==
  inv.name \in RefTools \cup {"getBranchRef"} =>
    \A i \in 1..Len(log) :
      /\ log[i].req.ep = "refs.post" =>
           log[i].req.body.name.v = CanonicalRef(Arg(inv.arguments, "branch").v)
      /\ log[i].req.ep = "refs.get" =>
           Between(log[i].req.url, "/refs?filter=")
             = EncodeURIComponent(CanonicalRef(Arg(inv.arguments, "branch").v))

====
